---- MODULE Spec2Model ----
(***************************************************************************)
(* Front end of the pseudocode language: the scanner of src/scanner.rs     *)
(* (Scanner, TokenStream, iter_tokens, scan) and the parser of             *)
(* src/parser.rs (TokenBuffer, Parser, parse_expression, parse_statement,  *)
(* parse_block).                                                           *)
(*                                                                         *)
(* A source text is a sequence of characters, each character a string of   *)
(* length one.  An i64 is kept as a sign and a sequence of decimal digits, *)
(* so that the 64-bit range of str::parse::<i64> is modelled exactly       *)
(* without arithmetic on numbers of that size.                             *)
(***************************************************************************)
EXTENDS Integers, Sequences, FiniteSets, TLC

VARIABLES
    source,        \* the text the Scanner's Peekable<Chars> runs over
    driver,        \* who drives the Scanner: "Scanner" | "TokenStream" | "scan"
    overflow_checks, \* the build traps integer overflow (a panic) or wraps
    pos,           \* number of characters the Peekable<Chars> has yielded
    cur_lexeme,    \* Scanner.cur_lexeme
    cur_location,  \* Scanner.cur_location
    status,        \* "running" | "exhausted" | "returned" | "panicked"
    trace,         \* every Some(..) returned by scan_next so far, with its span
    yielded,       \* every Some(..) returned by TokenStream::next so far
    tokens,        \* scan: the tokens vector
    errors,        \* scan: the errors vector
    items,         \* TokenBuffer.items
    current,       \* TokenBuffer.current
    identifier_map,\* Parser.identifier_map, a set of <<spelling, handle>>
    entry,         \* the parse function called: "parse_expression" |
                   \* "parse_statement" | "parse_block" ("none": no parse)
    outcome,       \* "idle" | "ready" | "returned" | "panicked" | "diverged"
    parsed,        \* what the parse function returned
    log            \* what the parse call did to the cursor and the interner

scanner_vars == <<source, driver, overflow_checks, pos, cur_lexeme, cur_location, status, trace,
                  yielded, tokens, errors>>

parser_vars == <<items, current, identifier_map, entry, outcome, parsed, log>>

vars == <<source, driver, overflow_checks, pos, cur_lexeme, cur_location, status, trace,
          yielded, tokens, errors,
          items, current, identifier_map, entry, outcome, parsed, log>>

\* no token buffer and no parser exist while the scanner is exercised
ParserIdle ==
    /\ items = <<>>
    /\ current = 0
    /\ identifier_map = {}
    /\ entry = "none"
    /\ outcome = "idle"
    /\ parsed = [kind |-> "None"]
    /\ log = <<>>

---------------------------------------------------------------------------
(* Bounds of the model.                                                    *)

\* longest source text enumerated exhaustively over Alphabet
MaxLen == 4

---------------------------------------------------------------------------
(* Characters.                                                             *)

Upper == {"A","B","C","D","E","F","G","H","I","J","K","L","M",
          "N","O","P","Q","R","S","T","U","V","W","X","Y","Z"}
Lower == {"a","b","c","d","e","f","g","h","i","j","k","l","m",
          "n","o","p","q","r","s","t","u","v","w","x","y","z"}

AsciiDigits == {"0","1","2","3","4","5","6","7","8","9"}

AsciiWhitespace == {" ", "\t", "\n", "\f", "\r"}

is_ascii_alphabetic(c) == c \in Upper \cup Lower

is_ascii_digit(c) == c \in AsciiDigits

is_ascii_whitespace(c) == c \in AsciiWhitespace

\* The conditions handed to check_next and advance_while (closures over one
\* character): the character is in a set, or is not in it.
In(set) == [in |-> TRUE, set |-> set]

NotIn(set) == [in |-> FALSE, set |-> set]

Holds(condition, c) == (c \in condition.set) = condition.in

DigitValue(c) ==
    CASE c = "0" -> 0 [] c = "1" -> 1 [] c = "2" -> 2 [] c = "3" -> 3
      [] c = "4" -> 4 [] c = "5" -> 5 [] c = "6" -> 6 [] c = "7" -> 7
      [] c = "8" -> 8 [] c = "9" -> 9

---------------------------------------------------------------------------
(* Numeric conversion: str::parse::<i64> and str::parse::<f64> on the      *)
(* lexemes Scanner::number builds ('-'? digit+ and '-'? digit+ '.' digit+).*)

RECURSIVE StripLeadingZeros(_)
StripLeadingZeros(ds) ==
    IF Len(ds) > 1 /\ ds[1] = 0 THEN StripLeadingZeros(Tail(ds)) ELSE ds

RECURSIVE StripTrailingZeros(_)
StripTrailingZeros(ds) ==
    IF Len(ds) > 1 /\ ds[Len(ds)] = 0
    THEN StripTrailingZeros(SubSeq(ds, 1, Len(ds) - 1)) ELSE ds

\* a < b for digit sequences without leading zeros
RECURSIVE DigitsLess(_, _)
DigitsLess(a, b) ==
    IF Len(a) # Len(b) THEN Len(a) < Len(b)
    ELSE IF Len(a) = 0 THEN FALSE
    ELSE IF a[1] # b[1] THEN a[1] < b[1]
    ELSE DigitsLess(Tail(a), Tail(b))

\* i64::MAX = 9223372036854775807 and the magnitude of i64::MIN
I64MaxDigits == <<9,2,2,3,3,7,2,0,3,6,8,5,4,7,7,5,8,0,7>>
I64MinDigits == <<9,2,2,3,3,7,2,0,3,6,8,5,4,7,7,5,8,0,8>>

IsZero(ds) == ds = <<0>>

\* the digits of a lexeme, sign and point left out
DigitsOf(lex) ==
    LET cs == SelectSeq(lex, is_ascii_digit)
    IN  [i \in 1..Len(cs) |-> DigitValue(cs[i])]

\* self.cur_lexeme.parse::<i64>(): Err on overflow, else the value
parse_i64(lex) ==
    LET neg == Len(lex) > 0 /\ lex[1] = "-"
        mag == StripLeadingZeros(DigitsOf(lex))
        lim == IF neg THEN I64MinDigits ELSE I64MaxDigits
    IN  IF DigitsLess(lim, mag)
        THEN [ok |-> FALSE]
        ELSE [ok |-> TRUE, value |-> [neg |-> neg /\ ~IsZero(mag), mag |-> mag]]

---------------------------------------------------------------------------
(* str::parse::<f64>: the f64 nearest to the decimal of the lexeme, ties   *)
(* to the even significand, with overflow to infinity and underflow to     *)
(* zero.  A decimal x is [d, n]: the digits d, of which the first n are    *)
(* the integer part.  An f64 is m * 2^e with m < 2^53 and e >= -1074; the  *)
(* model writes a finite f64 as [neg, int, frac], the digits of the        *)
(* shortest decimal that rounds to it (the digits Rust prints for it), so  *)
(* two lexemes have the same value exactly when they give the same f64.    *)

\* 2^52 and 2^53 in 16 digits: the range of a normal 53-bit significand
Two52 == <<4,5,0,3,5,9,9,6,2,7,3,7,0,4,9,6>>

Two53 == <<9,0,0,7,1,9,9,2,5,4,7,4,0,9,9,2>>

\* the digit of x at place i; 0 at the places that are not written
DecDigit(x, i) == IF i >= 1 /\ i <= Len(x.d) THEN x.d[i] ELSE 0

\* the digits of x at the places from .. to
Window(x, from, to) ==
    [i \in 1..(to - from + 1) |-> DecDigit(x, from + i - 1)]

\* x * 2 (up) or x / 2, exactly: a digit of the result depends on one digit
\* of x and its neighbour.  Doubling adds a place in front, halving one
\* at the end.
Rescale(x, up) ==
    IF up
    THEN [d |-> [i \in 1..(Len(x.d) + 1) |->
                    ((2 * DecDigit(x, i - 1)) % 10)
                        + (IF DecDigit(x, i) >= 5 THEN 1 ELSE 0)],
          n |-> x.n + 1]
    ELSE [d |-> [i \in 1..(Len(x.d) + 1) |->
                    (DecDigit(x, i) + 10 * (DecDigit(x, i - 1) % 2)) \div 2],
          n |-> x.n]

RECURSIVE ScaleBy(_, _, _)
\* x * 2^k (up) or x / 2^k
ScaleBy(x, up, k) ==
    IF k = 0 THEN x
    ELSE IF k = 1 THEN Rescale(x, up)
    ELSE CHOOSE r \in UNION {{ScaleBy(y, up, k - h) : y \in {ScaleBy(x, up, h)}} :
                             h \in {k \div 2}} : TRUE

\* x * 2^e
Scale(x, e) ==
    CHOOSE r \in {ScaleBy(y, e >= 0, IF e >= 0 THEN e ELSE 0 - e) : y \in {x}} : TRUE

\* the integer part of x is at least c, a number of 16 digits
IntAtLeast(x, c) ==
    \/ \E i \in 1..(x.n - 16) : x.d[i] # 0
    \/ ~ DigitsLess(Window(x, x.n - 15, x.n), c)

\* s = [x, e] stands for x * 2^e; it is settled when the integer part of x
\* is a significand: 2^52 <= x < 2^53, or x < 2^52 at the least exponent
Settled(s) ==
    /\ ~ IntAtLeast(s.x, Two53)
    /\ IntAtLeast(s.x, Two52) \/ s.e = 0 - 1074

NormStep(s) ==
    IF IntAtLeast(s.x, Two53)
    THEN [x |-> Rescale(s.x, FALSE), e |-> s.e + 1]
    ELSE [x |-> Rescale(s.x, TRUE), e |-> s.e - 1]

RECURSIVE Norm(_, _)
\* s after the steps that settle it, at most fuel of them
Norm(s, fuel) ==
    IF Settled(s) THEN s
    ELSE IF fuel = 1 THEN NormStep(s)
    ELSE CHOOSE r \in UNION {{Norm(y, fuel - h) : y \in {Norm(s, h)}} :
                             h \in {fuel \div 2}} : TRUE

RECURSIVE Bump(_, _)
\* ds + 1 (up) or ds - 1, in the same number of digits
Bump(ds, up) ==
    IF ds = <<>> THEN <<>>
    ELSE IF ds[Len(ds)] = (IF up THEN 9 ELSE 0)
    THEN CHOOSE r \in {Append(Bump(front, up), IF up THEN 0 ELSE 9) :
                       front \in {SubSeq(ds, 1, Len(ds) - 1)}} : TRUE
    ELSE [ds EXCEPT ![Len(ds)] = IF up THEN @ + 1 ELSE @ - 1]

\* the digits of x after place q are more than half a unit of place q, or
\* exactly half of it next to an odd digit
RoundsUp(x, q) ==
    \/ DecDigit(x, q + 1) > 5
    \/ /\ DecDigit(x, q + 1) = 5
       /\ \/ \E j \in (q + 2)..Len(x.d) : x.d[j] # 0
          \/ DecDigit(x, q) % 2 = 1

\* the integer part of a settled x, rounded to nearest, ties to even
Significand(x) ==
    IF RoundsUp(x, x.n) THEN Bump(Window(x, x.n - 15, x.n), TRUE)
                        ELSE Window(x, x.n - 15, x.n)

\* the f64 [m, e] nearest to a settled s; a significand rounded up to 2^53
\* is 2^52 at the next exponent
Rounded(s) ==
    IF Significand(s.x) = Two53
    THEN [m |-> Two52, e |-> s.e + 1]
    ELSE [m |-> Significand(s.x), e |-> s.e]

\* the f64 r as a decimal (x) and the ends of the interval of the reals
\* that round to r: half a unit of the significand on either side, a
\* quarter below a power of two; the ends belong to it when m is even
Interval(r) ==
    [lo |-> Scale([d |-> Bump(r.m, FALSE)
                          \o (IF r.m = Two52 /\ r.e > 0 - 1074
                              THEN <<7, 5>> ELSE <<5, 0>>),
                   n |-> 16], r.e),
     x  |-> Scale([d |-> r.m \o <<0, 0>>, n |-> 16], r.e),
     hi |-> Scale([d |-> r.m \o <<5, 0>>, n |-> 16], r.e),
     even |-> r.m[16] % 2 = 0]

\* the place of the first digit of x that is not 0
FirstNonZero(x) ==
    CHOOSE i \in 1..Len(x.d) : x.d[i] # 0 /\ \A j \in 1..(i - 1) : x.d[j] = 0

\* the interval b with the place before the first digit of its upper end
\* and the place of the first digit of x
Placed(b) ==
    [lo |-> b.lo, x |-> b.x, hi |-> b.hi, even |-> b.even,
     from |-> FirstNonZero(b.hi) - 1, first |-> FirstNonZero(b.x)]

TailNonZero(x, q) == \E j \in (q + 1)..Len(x.d) : x.d[j] # 0

\* x cut after place q is in the interval
DownOk(v, q) ==
    \/ DigitsLess(Window(v.lo, v.from, q), Window(v.x, v.from, q))
    \/ /\ Window(v.lo, v.from, q) = Window(v.x, v.from, q)
       /\ ~ TailNonZero(v.lo, q)
       /\ v.even

\* x cut after place q, plus one unit of place q, is in the interval
UpOk(v, q) ==
    \/ DigitsLess(Bump(Window(v.x, v.from, q), TRUE), Window(v.hi, v.from, q))
    \/ /\ Bump(Window(v.x, v.from, q), TRUE) = Window(v.hi, v.from, q)
       /\ TailNonZero(v.hi, q) \/ v.even

\* the least number of significant digits with which a decimal is in the
\* interval; 17 always are enough
Places(v) ==
    CHOOSE k \in 1..17 :
        /\ DownOk(v, v.first + k - 1) \/ UpOk(v, v.first + k - 1)
        /\ \A j \in 1..(k - 1) :
               ~ (DownOk(v, v.first + j - 1) \/ UpOk(v, v.first + j - 1))

\* the digits at the places v.from .. q of the decimal in the interval that
\* ends at place q and is nearest to x; of two equally near, the upper one
Chosen(v, q) ==
    IF UpOk(v, q) /\ (~ DownOk(v, q) \/ DecDigit(v.x, q + 1) >= 5)
    THEN Bump(Window(v.x, v.from, q), TRUE)
    ELSE Window(v.x, v.from, q)

\* the digit at place i of the digits c written at the places from .. q
PlaceDigit(c, from, q, i) == IF i >= from /\ i <= q THEN c[i - from + 1] ELSE 0

\* the value with the digits c at the places from .. q, n integer places
Decimal(neg, n, from, q, c) ==
    [neg  |-> neg,
     int  |-> IF from > n THEN <<0>>
              ELSE StripLeadingZeros(
                       [i \in 1..(n - (IF from < 1 THEN 1 ELSE from) + 1) |->
                           PlaceDigit(c, from, q,
                                      (IF from < 1 THEN 1 ELSE from) + i - 1)]),
     frac |-> IF q <= n THEN <<0>>
              ELSE StripTrailingZeros(
                       [i \in 1..(q - n) |-> PlaceDigit(c, from, q, n + i)])]

Zero(neg) == [neg |-> neg, int |-> <<0>>, frac |-> <<0>>]

Infinity(neg) == [neg |-> neg, inf |-> TRUE]

\* the value of the f64 r = [m, e]: infinite from 2^1024 on
ValueOf(neg, r) ==
    IF r.e > 971 THEN Infinity(neg)
    ELSE IF \A i \in 1..16 : r.m[i] = 0 THEN Zero(neg)
    ELSE CHOOSE val \in
             UNION {{Decimal(neg, v.x.n, v.from, q, Chosen(v, q)) :
                        q \in {v.first + Places(v) - 1}} :
                    v \in {Placed(b) : b \in {Interval(r)}}} : TRUE

\* the f64 of the decimal int.frac.  A decimal of at most 15 digits is the
\* shortest decimal that rounds to its f64, so its value is written with
\* its own digits.  10^309 and more is infinite, less than 10^-324 is zero;
\* in between the decimal is settled in at most 2048 steps and rounded.
dec2flt(neg, int, frac) ==
    IF Len(int) + Len(frac) <= 15
    THEN [neg |-> neg, int |-> int, frac |-> frac]
    ELSE IF (\A i \in 1..Len(int) : int[i] = 0) /\ (\A i \in 1..Len(frac) : frac[i] = 0)
    THEN Zero(neg)
    ELSE IF Len(int) > 309 THEN Infinity(neg)
    ELSE IF int = <<0>> /\ Len(frac) > 324 /\ (\A i \in 1..324 : frac[i] = 0)
    THEN Zero(neg)
    ELSE CHOOSE val \in
             {ValueOf(neg, r) :
                 r \in {Rounded(s) :
                     s \in {Norm(s0, 2048) :
                         s0 \in {[x |-> [d |-> int \o frac, n |-> Len(int)],
                                  e |-> 0]}}}} : TRUE

\* self.cur_lexeme.parse::<f64>(): never fails on digit+ '.' digit+; an f64
\* keeps the sign of zero
parse_f64(lex) ==
    LET neg == Len(lex) > 0 /\ lex[1] = "-"
        p   == CHOOSE i \in 1..Len(lex) : lex[i] = "."
    IN  [ok |-> TRUE,
         value |-> CHOOSE val \in
                       {dec2flt(neg, int, frac) :
                           int \in {StripLeadingZeros(DigitsOf(SubSeq(lex, 1, p - 1)))},
                           frac \in {StripTrailingZeros(DigitsOf(SubSeq(lex, p + 1, Len(lex))))}} :
                       TRUE]

---------------------------------------------------------------------------
(* Location.                                                               *)

(* line and column are u32; a u32 is written as the sequence of its        *)
(* decimal digits without leading zeros, so that the end of its range is   *)
(* modelled without arithmetic on numbers of that size.                    *)

U32Max == <<4, 2, 9, 4, 9, 6, 7, 2, 9, 5>>

\* the u32 of a small natural number
RECURSIVE U32(_)
U32(n) == IF n < 10 THEN <<n>> ELSE Append(U32(n \div 10), n % 10)

\* n + 1 for a u32 n below u32::MAX
Succ(n) ==
    IF \A i \in 1..Len(n) : n[i] = 9
    THEN <<1>> \o [i \in 1..Len(n) |-> 0]
    ELSE Bump(n, TRUE)

\* the panic of an addition that overflows in a build that checks it
AddOverflow == [panic |-> "attempt to add with overflow"]

Panicked(loc) == "panic" \in DOMAIN loc

\* n += 1 on a u32 panics: the build checks overflow and n is u32::MAX
Overflows(n) == overflow_checks /\ n = U32Max

\* n += 1 on a u32 that does not panic: the sum, wrapped to 0 at u32::MAX
AddOne(n) == IF n = U32Max THEN <<0>> ELSE Succ(n)

Location_new == [line |-> <<1>>, column |-> <<1>>]

\* the location afterwards, or AddOverflow when the addition panicked
increment_column(loc) ==
    IF Overflows(loc.column) THEN AddOverflow
    ELSE [loc EXCEPT !.column = AddOne(@)]

increment_line(loc) ==
    IF Overflows(loc.line) THEN AddOverflow
    ELSE [line |-> AddOne(loc.line), column |-> <<1>>]

---------------------------------------------------------------------------
(* Scanner.  A scanner state s is [pos, cur_lexeme, cur_location,          *)
(* unwinding]; the character iterator is the variable source read from     *)
(* position s.pos.  unwinding is set by a panic inside advance: from then  *)
(* on no code of the scanner runs, so check_next and advance leave such a  *)
(* state as it is, and scan_next ends as a panic.                          *)

from_source == [pos |-> 0, cur_lexeme |-> <<>>, cur_location |-> Location_new,
                unwinding |-> FALSE]

AtEnd(s) == s.pos >= Len(source)

Peek(s) == source[s.pos + 1]

check_next(s, condition) ==
    IF s.unwinding \/ AtEnd(s) THEN FALSE ELSE Holds(condition, Peek(s))

\* the location after the character c was pushed, or AddOverflow
Moved(loc, c) ==
    IF c = "\n" THEN increment_line(loc) ELSE increment_column(loc)

\* the scanner after its next character was taken and pushed and the
\* increment gave loc; when that panicked the location is as before
Taken(s, loc) ==
    [pos          |-> s.pos + 1,
     cur_lexeme   |-> Append(s.cur_lexeme, Peek(s)),
     cur_location |-> IF Panicked(loc) THEN s.cur_location ELSE loc,
     unwinding    |-> Panicked(loc)]

\* advance on a scanner that is not at the end (the Some(c) branch)
advance(s) ==
    IF s.unwinding THEN s
    ELSE Taken(s, Moved(s.cur_location, Peek(s)))

advance_if_match(s, target) ==
    LET result == check_next(s, In({target}))
    IN  [s |-> IF result THEN advance(s) ELSE s, result |-> result]

RECURSIVE advance_while(_, _)
advance_while(s, condition) ==
    IF check_next(s, condition) THEN advance_while(advance(s), condition)
                                ELSE s

create_token(s, type_, location) ==
    [type_ |-> type_, lexeme |-> s.cur_lexeme, location |-> location]

Ok(s, type_) == [s |-> s, kind |-> "Ok", type_ |-> type_]

Err(s, error) == [s |-> s, kind |-> "Err", error |-> error]

Panic(s) == [s |-> s, kind |-> "Panic"]

comment(s) == Ok(advance_while(s, NotIn({"\n"})), [tag |-> "Comment"])

\* char, but a quote is not taken as the character of the literal
char_rejects_quote(s) ==
    IF AtEnd(s) \/ Peek(s) = "'"
    THEN Err(IF AtEnd(s) THEN s ELSE advance(s),
             [tag |-> "InvalidCharLiteral",
              location |-> (IF AtEnd(s) THEN s ELSE advance(s)).cur_location])
    ELSE LET c == Peek(s)
             m == advance_if_match(advance(s), "'")
         IN  IF ~m.result
             THEN Err(m.s, [tag |-> "InvalidCharLiteral",
                            location |-> m.s.cur_location])
             ELSE Ok(m.s, [tag |-> "CharLiteral", ch |-> c])

char(s) ==
    IF AtEnd(s)
    THEN Err(s, [tag |-> "InvalidCharLiteral", location |-> s.cur_location])
    ELSE LET c == Peek(s)
             m == advance_if_match(advance(s), "'")
         IN  IF ~m.result
             THEN Err(m.s, [tag |-> "InvalidCharLiteral",
                            location |-> m.s.cur_location])
             ELSE Ok(m.s, [tag |-> "CharLiteral", ch |-> c])

\* string, but a line end does not stop the literal
string_across_lines(s) ==
    LET t == advance_while(s, NotIn({"\""}))
        m == advance_if_match(t, "\"")
    IN  IF ~m.result
        THEN Err(m.s, [tag |-> "UnterminatedString",
                       location |-> m.s.cur_location])
        ELSE Ok(m.s, [tag |-> "StringLiteral",
                      str |-> SubSeq(m.s.cur_lexeme, 2, Len(m.s.cur_lexeme) - 1)])

string(s) ==
    LET t == advance_while(s, NotIn({"\"", "\n"}))
        m == advance_if_match(t, "\"")
    IN  IF ~m.result
        THEN Err(m.s, [tag |-> "UnterminatedString",
                       location |-> m.s.cur_location])
        ELSE Ok(m.s, [tag |-> "StringLiteral",
                      str |-> SubSeq(m.s.cur_lexeme, 2, Len(m.s.cur_lexeme) - 1)])

Keywords ==
    {<<<<"P","R","O","C","E","D","U","R","E">>, "Procedure">>,
       <<<<"E","N","D","P","R","O","C","E","D","U","R","E">>, "EndProcedure">>,
       <<<<"F","U","N","C","T","I","O","N">>, "Function">>,
       <<<<"R","E","T","U","R","N","S">>, "Returns">>,
       <<<<"E","N","D","F","U","N","C","T","I","O","N">>, "EndFunction">>,
       <<<<"R","E","T","U","R","N">>, "Return">>,
       <<<<"I","F">>, "If">>,
       <<<<"T","H","E","N">>, "Then">>,
       <<<<"E","L","S","E">>, "Else">>,
       <<<<"E","N","D","I","F">>, "EndIf">>,
       <<<<"C","A","S","E">>, "Case">>,
       <<<<"O","T","H","E","R","W","I","S","E">>, "Otherwise">>,
       <<<<"E","N","D","C","A","S","E">>, "EndCase">>,
       <<<<"F","O","R">>, "For">>,
       <<<<"T","O">>, "To">>,
       <<<<"S","T","E","P">>, "Step">>,
       <<<<"N","E","X","T">>, "Next">>,
       <<<<"R","E","P","E","A","T">>, "Repeat">>,
       <<<<"U","N","T","I","L">>, "Until">>,
       <<<<"W","H","I","L","E">>, "While">>,
       <<<<"D","O">>, "Do">>,
       <<<<"E","N","D","W","H","I","L","E">>, "EndWhile">>,
       <<<<"D","E","C","L","A","R","E">>, "Declare">>,
       <<<<"C","O","N","S","T","A","N","T">>, "Constant">>,
       <<<<"I","N","P","U","T">>, "Input">>,
       <<<<"O","U","T","P","U","T">>, "Output">>,
       <<<<"C","A","L","L">>, "Call">>,
       <<<<"O","P","E","N","F","I","L","E">>, "OpenFile">>,
       <<<<"R","E","A","D","F","I","L","E">>, "ReadFile">>,
       <<<<"W","R","I","T","E","F","I","L","E">>, "WriteFile">>,
       <<<<"C","L","O","S","E","F","I","L","E">>, "CloseFile">>,
       <<<<"R","E","A","D">>, "Read">>,
       <<<<"W","R","I","T","E">>, "Write">>,
       <<<<"I","N","T","E","G","E","R">>, "Integer">>,
       <<<<"R","E","A","L">>, "Real">>,
       <<<<"C","H","A","R">>, "Char">>,
       <<<<"S","T","R","I","N","G">>, "String">>,
       <<<<"B","O","O","L","E","A","N">>, "Boolean">>,
       <<<<"A","R","R","A","Y">>, "Array">>,
       <<<<"O","F">>, "Of">>,
       <<<<"A","N","D">>, "And">>,
       <<<<"O","R">>, "Or">>,
       <<<<"N","O","T">>, "Not">>}

identifier(s) ==
    LET t   == advance_while(s, In(Upper \cup Lower))
        lex == t.cur_lexeme
    IN  IF \E k \in Keywords : k[1] = lex
        THEN Ok(t, [tag |-> (CHOOSE k \in Keywords : k[1] = lex)[2]])
        ELSE IF lex = <<"T","R","U","E">>
        THEN Ok(t, [tag |-> "BooleanLiteral", bool |-> TRUE])
        ELSE IF lex = <<"F","A","L","S","E">>
        THEN Ok(t, [tag |-> "BooleanLiteral", bool |-> FALSE])
        ELSE Ok(t, [tag |-> "Identifier", name |-> lex])

number(s) ==
    LET t == advance_while(s, In(AsciiDigits))
        m == advance_if_match(t, ".")
    IN  IF m.result
        THEN IF ~check_next(m.s, In(AsciiDigits))
             THEN Err(m.s, [tag |-> "InvalidRealLiteral",
                            location |-> m.s.cur_location])
             ELSE LET u == advance_while(m.s, In(AsciiDigits))
                      v == parse_f64(u.cur_lexeme)
                  IN  IF v.ok THEN Ok(u, [tag |-> "RealLiteral", real |-> v.value])
                              ELSE Panic(u)
        ELSE LET v == parse_i64(m.s.cur_lexeme)
             IN  IF v.ok THEN Ok(m.s, [tag |-> "IntegerLiteral", int |-> v.value])
                         ELSE Panic(m.s)

whitespace(s) == Ok(advance_while(s, In(AsciiWhitespace)), [tag |-> "Whitespace"])

\* the arms of scan_next's match that yield a symbol without looking ahead
SingleCharSymbol(c) ==
    CASE c = "(" -> "LParen"   [] c = ")" -> "RParen"
      [] c = "[" -> "LBracket" [] c = "]" -> "RBracket"
      [] c = "+" -> "Plus"     [] c = "*" -> "Star"
      [] c = "^" -> "Caret"    [] c = "=" -> "Equal"
      [] c = "," -> "Comma"    [] c = ":" -> "Colon"

\* the '-' arm, but the sign is never merged into a number
scan_minus_never_merges(s) == Ok(s, [tag |-> "Minus"])

\* the '-' arm of the match: the sign is merged when a digit follows
scan_minus(s) ==
    IF check_next(s, In(AsciiDigits))
    THEN number(s)
    ELSE Ok(s, [tag |-> "Minus"])

\* the match on next_char, entered after the first character was consumed
scan_match(s, next_char) ==
    IF next_char \in {"(", ")", "[", "]", "+", "*", "^", "=", ",", ":"}
    THEN Ok(s, [tag |-> SingleCharSymbol(next_char)])
    ELSE IF next_char = "-" THEN scan_minus(s)
    ELSE IF next_char = "/"
    THEN LET m == advance_if_match(s, "/")
         IN  IF m.result THEN comment(m.s) ELSE Ok(m.s, [tag |-> "Slash"])
    ELSE IF next_char = ">"
    THEN LET m == advance_if_match(s, "=")
         IN  IF m.result THEN Ok(m.s, [tag |-> "GreaterEqual"])
                         ELSE Ok(m.s, [tag |-> "Greater"])
    ELSE IF next_char = "<"
    THEN LET m1 == advance_if_match(s, "=")
             m2 == advance_if_match(s, ">")
             m3 == advance_if_match(s, "-")
         IN  IF m1.result THEN Ok(m1.s, [tag |-> "LessEqual"])
             ELSE IF m2.result THEN Ok(m2.s, [tag |-> "NotEqual"])
             ELSE IF m3.result THEN Ok(m3.s, [tag |-> "LArrow"])
             ELSE Ok(s, [tag |-> "Less"])
    ELSE IF next_char = "'" THEN char(s)
    ELSE IF next_char = "\"" THEN string(s)
    ELSE IF is_ascii_alphabetic(next_char) THEN identifier(s)
    ELSE IF is_ascii_digit(next_char) THEN number(s)
    ELSE IF is_ascii_whitespace(next_char) THEN whitespace(s)
    ELSE Err(s, [tag |-> "UnexpectedCharacter", ch |-> next_char,
                 location |-> s.cur_location])

\* result.map(|t| self.create_token(t, location))
map_create_token(result, location) ==
    IF result.kind = "Ok"
    THEN [s |-> result.s, kind |-> "Ok",
          token |-> create_token(result.s, result.type_, location)]
    ELSE result

\* cur_lexeme.clear()
clear(s) == [s EXCEPT !.cur_lexeme = <<>>]

\* a panic raised inside advance ends the call, whatever it was computing
Unwind(result) == IF result.s.unwinding THEN Panic(result.s) ELSE result

\* scan_next, but cur_lexeme is not cleared at the start of the call
scan_next_keeps_lexeme(s) ==
    IF AtEnd(s)
    THEN [s |-> s, kind |-> "None"]
    ELSE Unwind(map_create_token(scan_match(advance(s), Peek(s)),
                                 s.cur_location))

\* Scanner::scan_next: kind is "None", "Ok" (with token), "Err" (with error)
\* or "Panic" (an unwrap in number failed, or an increment of the location
\* overflowed in a build that checks it); s is the scanner afterwards
scan_next(s) ==
    IF AtEnd(s)
    THEN [s |-> clear(s), kind |-> "None"]
    ELSE Unwind(map_create_token(scan_match(advance(clear(s)), Peek(s)),
                                 s.cur_location))

---------------------------------------------------------------------------
(* TokenStream.                                                            *)

\* the field TokenStream.ignore_irrelevant as iter_tokens sets it
ignore_irrelevant == TRUE

\* what a scan_next result leaves in the trace: the result and its span
Entry(s, r) ==
    IF r.kind = "Ok"
    THEN [kind |-> "Ok", token |-> r.token, start |-> s.pos, end |-> r.s.pos]
    ELSE [kind |-> "Err", error |-> r.error, start |-> s.pos, end |-> r.s.pos]

\* the item of a Some(..) as the caller sees it
Item(r) ==
    IF r.kind = "Ok" THEN [kind |-> "Ok", token |-> r.token]
                     ELSE [kind |-> "Err", error |-> r.error]

\* IsIrrelevant, but the pattern does not ask for an Ok
IsIrrelevant_any_result(r) ==
    \/ r.kind = "Err"
    \/ r.kind = "Ok" /\ r.token.type_.tag \in {"Comment", "Whitespace"}

\* the pattern of the while let: Some(Ok(Token { Comment | Whitespace }))
IsIrrelevant(r) ==
    r.kind = "Ok" /\ r.token.type_.tag \in {"Comment", "Whitespace"}

\* calls, with the result r of scan_next on scanner s added if it is Some(..)
Record(calls, s, r) ==
    IF r.kind \in {"Ok", "Err"} THEN Append(calls, Entry(s, r)) ELSE calls

\* the while let loop of TokenStream::next: token is what scan_next returned
\* on scanner s; calls holds the results before it
RECURSIVE skip_irrelevant(_, _, _)
skip_irrelevant(s, token, calls) ==
    IF ignore_irrelevant /\ IsIrrelevant(token)
    THEN skip_irrelevant(token.s, scan_next(token.s), Record(calls, s, token))
    ELSE [r |-> token, calls |-> Record(calls, s, token)]

\* TokenStream::next: r is the returned scan_next result, calls every
\* Some(..) scan_next returned on the way
TokenStream_next(s) == skip_irrelevant(s, scan_next(s), <<>>)

---------------------------------------------------------------------------
(* The state machine: one source text, scanned by one of the three entry   *)
(* points until it is exhausted.                                           *)

Alphabet == {"0", "5", "-", ".", "'", "\"", "\\", "\n", " ", "/", "a", "#", "<"}

BoundedSources == UNION {[1..k -> Alphabet] : k \in 0..MaxLen}

\* the sources of the scanner's tests and of the documented examples, and
\* integer lexemes at the edge of the 64-bit range, and real lexemes with
\* more digits than an f64 keeps
ExtraSources ==
    { <<"3","-","5">>, <<"-","5">>, <<"4","2">>, <<"-">>,
      <<"'","c","'">>, <<"'","\"","'">>, <<"'","\\","'">>, <<"'","'">>,
      <<"'","a","b","c","'">>, <<"'","a","b","'">>, <<"'","x","'">>,
      <<"'","'","'">>, <<"'","'","a">>, <<"'","x","'","'","'","a">>,
      <<"\"","h","i"," ","y","o","\"">>, <<"\"","\\","n","\\","r","\"">>,
      <<"\"","\\","\"">>, <<"\"","\\","\"","a","\"">>, <<"\"","h","e","l","l","o">>,
      <<"\"","a","\n","b","\"">>, <<"\"","\\","\"","\"","a","\n">>,
      <<"0",".","6">>, <<"1","3",".","0">>, <<"-","2",".","5">>, <<"2",".">>,
      <<".","5">>, <<"-","0">>, <<"-","2",".">>,
      <<"T","R","U","E">>, <<"F","A","L","S","E">>, <<"f","o","o">>,
      <<"D","E","C","L","A","R","E">>, <<"E","N","D","I","F">>,
      <<"(">>, <<"<">>, <<"<","=">>, <<"<",">">>, <<"<","-">>, <<">","=">>,
      <<"x"," ","<","-"," ","1","\n","/","/","c","\n","y">>,
      <<"a","#","'","b","\n"," ","\"","c","\n","1",".","+","d">>,
      <<"a"," ","#","/","/","c","\n","b">>,
      <<"9","2","2","3","3","7","2","0","3","6","8","5","4","7","7","5","8","0","7">>,
      <<"9","2","2","3","3","7","2","0","3","6","8","5","4","7","7","5","8","0","8">>,
      <<"-","9","2","2","3","3","7","2","0","3","6","8","5","4","7","7","5","8","0","8">>,
      <<"-","9","2","2","3","3","7","2","0","3","6","8","5","4","7","7","5","8","0","9">>,
      <<"0","0","9","2","2","3","3","7","2","0","3","6","8","5","4","7","7","5","8","0","7">>,
      <<"#"," ","9","9","9","9","9","9","9","9","9","9","9","9","9","9","9","9","9","9","9","9">>,
      <<"0",".","1","0","0","0","0","0","0","0","0","0","0","0","0","0","0","0","1">>,
      <<"9","0","0","7","1","9","9","2","5","4","7","4","0","9","9","3",".","0">>,
      <<"-","1","2","3","4","5","6","7","8","9",".","9","8","7","6","5","4","3","2","1">> }

Sources == BoundedSources \cup ExtraSources

Drivers == {"Scanner", "TokenStream", "scan"}

Scanner == [pos |-> pos, cur_lexeme |-> cur_lexeme, cur_location |-> cur_location,
            unwinding |-> FALSE]

\* the two kinds of build differ only where a counter of the location is at
\* the end of its range, which no source of Sources reaches: they are told
\* apart under LongTextSpec
Init ==
    /\ source \in Sources
    /\ driver \in Drivers
    /\ overflow_checks = FALSE
    /\ pos = from_source.pos
    /\ cur_lexeme = from_source.cur_lexeme
    /\ cur_location = from_source.cur_location
    /\ status = "running"
    /\ trace = <<>>
    /\ yielded = <<>>
    /\ tokens = <<>>
    /\ errors = <<>>
    /\ ParserIdle

SetScanner(s) ==
    /\ pos' = s.pos
    /\ cur_lexeme' = s.cur_lexeme
    /\ cur_location' = s.cur_location

\* the state after a scan_next call that returned r
Returned(r) ==
    /\ SetScanner(r.s)
    /\ status' = CASE r.kind = "None"  -> "exhausted"
                   [] r.kind = "Panic" -> "panicked"
                   [] OTHER            -> "running"
    /\ trace' = Record(trace, Scanner, r)

\* one direct call of Scanner::scan_next
ScanNextCall ==
    /\ driver = "Scanner"
    /\ status = "running"
    /\ Returned(scan_next(Scanner))
    /\ UNCHANGED <<source, driver, overflow_checks, yielded, tokens, errors>>
    /\ UNCHANGED parser_vars

\* the state after a TokenStream::next call n; a None ends the stream
Yielded(n, ended) ==
    /\ SetScanner(n.r.s)
    /\ status' = CASE n.r.kind = "None"  -> ended
                   [] n.r.kind = "Panic" -> "panicked"
                   [] OTHER              -> "running"
    /\ trace' = trace \o n.calls
    /\ yielded' = IF n.r.kind \in {"Ok", "Err"}
                  THEN Append(yielded, Item(n.r)) ELSE yielded

\* one call of TokenStream::next on the stream iter_tokens(source) made
TokenStreamNext ==
    /\ driver = "TokenStream"
    /\ status = "running"
    /\ Yielded(TokenStream_next(Scanner), "exhausted")
    /\ UNCHANGED <<source, driver, overflow_checks, tokens, errors>>
    /\ UNCHANGED parser_vars

\* the body of the for loop of scan: the item goes to tokens or to errors
Pushed(item) ==
    /\ tokens' = IF item.kind = "Ok" THEN Append(tokens, item.token) ELSE tokens
    /\ errors' = IF item.kind = "Err" THEN Append(errors, item.error) ELSE errors

\* one iteration of the for loop of scan; when the stream ends scan returns
\* (tokens, errors)
ScanIter ==
    /\ driver = "scan"
    /\ status = "running"
    /\ Yielded(TokenStream_next(Scanner), "returned")
    /\ Pushed(TokenStream_next(Scanner).r)
    /\ UNCHANGED <<source, driver, overflow_checks>>
    /\ UNCHANGED parser_vars

Next == ScanNextCall \/ TokenStreamNext \/ ScanIter

Spec == Init /\ [][Next]_vars

---------------------------------------------------------------------------
(* The scanner far into a long text.  No source of Sources brings a        *)
(* counter of the location near the end of its range, where the two kinds  *)
(* of build part; here the scanner starts where a long text has brought    *)
(* it: a direct caller has taken the tokens of the text so far, the last   *)
(* of them a parenthesis, and source is what is left of the text (pos and  *)
(* the spans in trace count from there).                                   *)

\* longest rest of the text enumerated exhaustively over Alphabet
MaxRest == 2

Rests == UNION {[1..k -> Alphabet] : k \in 1..MaxRest}

\* lines reached: the first, and the last two of the range
ReachedLines == {<<1>>, Bump(U32Max, FALSE), U32Max}

\* columns reached after a parenthesis: the second, and the last two of the
\* range
ReachedColumns == {<<2>>, Bump(U32Max, FALSE), U32Max}

LongTextInit ==
    /\ source \in Rests
    /\ driver = "Scanner"
    /\ overflow_checks \in BOOLEAN
    /\ pos = 0
    /\ cur_lexeme = <<"(">>
    /\ cur_location \in [line : ReachedLines, column : ReachedColumns]
    /\ status = "running"
    /\ trace = <<>>
    /\ yielded = <<>>
    /\ tokens = <<>>
    /\ errors = <<>>
    /\ ParserIdle

LongTextSpec == LongTextInit /\ [][ScanNextCall]_vars

---------------------------------------------------------------------------
(* Vocabulary of the properties.                                           *)

Exhausted == status \in {"exhausted", "returned"}

IsTok(e) == e.kind = "Ok"

IsErr(e) == e.kind = "Err"

TokIs(e, tag) == e.kind = "Ok" /\ e.token.type_.tag = tag

ErrIs(e, tag) == e.kind = "Err" /\ e.error.tag = tag

NoErrors == \A i \in 1..Len(trace) : IsTok(trace[i])

\* the lexemes of the tokens of a sequence of results, concatenated in order
RECURSIVE ConcatLexemes(_)
ConcatLexemes(es) ==
    IF es = <<>> THEN <<>>
    ELSE (IF IsTok(Head(es)) THEN Head(es).token.lexeme ELSE <<>>)
         \o ConcatLexemes(Tail(es))

\* the text the i-th scan_next call consumed
Consumed(i) == SubSeq(source, trace[i].start + 1, trace[i].end)

CharAt(k) == IF k >= 1 /\ k <= Len(source) THEN source[k] ELSE "EOF"

I64(neg, mag) == [neg |-> neg, mag |-> mag]

IntTok(v) == [tag |-> "IntegerLiteral", int |-> v]

TokenTypes == [i \in 1..Len(trace) |->
                 IF IsTok(trace[i]) THEN trace[i].token.type_
                                    ELSE [tag |-> "Err"]]

---------------------------------------------------------------------------
(* C1 as stated: for every source text, once the unfiltered scanner is     *)
(* exhausted, the lexemes of all tokens it produced, concatenated in       *)
(* order, are the source text.                                             *)
C1_RoundTripEverySource ==
    Exhausted => ConcatLexemes(trace) = source

(* C1 amended: on a source on which scan_next has yielded no lexical      *)
(* error, after every scan_next call that returned, the lexemes of all     *)
(* tokens produced so far (whitespace and comments included), concatenated *)
(* in order, are exactly the consumed part of the source; at exhaustion    *)
(* that is the whole source.                                               *)
C1_RoundTrip ==
    (NoErrors /\ status # "panicked") =>
        /\ ConcatLexemes(trace) = SubSeq(source, 1, pos)
        /\ Exhausted => pos = Len(source)

C1_Witness ==
    /\ Exhausted
    /\ NoErrors
    /\ Len(trace) >= 5
    /\ \E i \in 1..Len(trace) : TokIs(trace[i], "Comment")
    /\ \E i \in 1..Len(trace) : TokIs(trace[i], "Whitespace")

---------------------------------------------------------------------------
(* C2: a '-' that directly follows a numeric literal and is directly       *)
(* followed by a digit scans as the Minus symbol; "3-5" scans as exactly   *)
(* IntegerLiteral(3), Minus, IntegerLiteral(5).                            *)
C2_MinusAfterNumber ==
    /\ \A i \in 1..Len(trace) :
          ( /\ i > 1
            /\ IsTok(trace[i - 1])
            /\ trace[i - 1].token.type_.tag \in {"IntegerLiteral", "RealLiteral"}
            /\ CharAt(trace[i].start + 1) = "-"
            /\ is_ascii_digit(CharAt(trace[i].start + 2)) )
          => TokIs(trace[i], "Minus")
    /\ (source = <<"3", "-", "5">> /\ Exhausted) =>
          TokenTypes = << IntTok(I64(FALSE, <<3>>)), [tag |-> "Minus"],
                          IntTok(I64(FALSE, <<5>>)) >>

---------------------------------------------------------------------------
(* C3 as stated: at the start of a token, a '-' whose next character is a  *)
(* digit gives one numeric literal token with a negative value; a '-'      *)
(* whose next character is not a digit, or that is the last character,     *)
(* scans as the Minus symbol.                                              *)

DigitsNonZero(ds) == \E k \in 1..Len(ds) : ds[k] # 0

\* the value of a numeric literal token is below zero
NegativeValue(type_) ==
    IF type_.tag = "IntegerLiteral"
    THEN type_.int.neg /\ DigitsNonZero(type_.int.mag)
    ELSE /\ type_.real.neg
         /\ \/ "inf" \in DOMAIN type_.real
            \/ DigitsNonZero(type_.real.int)
            \/ DigitsNonZero(type_.real.frac)

IsNumeric(e) ==
    IsTok(e) /\ e.token.type_.tag \in {"IntegerLiteral", "RealLiteral"}

StartsWithMinus(i) == CharAt(trace[i].start + 1) = "-"

MinusBeforeDigit(i) ==
    StartsWithMinus(i) /\ is_ascii_digit(CharAt(trace[i].start + 2))

C3_MergedMinusNegative ==
    \A i \in 1..Len(trace) :
        StartsWithMinus(i) =>
            IF MinusBeforeDigit(i)
            THEN /\ IsNumeric(trace[i])
                 /\ NegativeValue(trace[i].token.type_)
            ELSE TokIs(trace[i], "Minus")

(* C3 amended: at the start of a token, a '-' whose next character is a    *)
(* digit is consumed together with the digits: if the call yields a token  *)
(* it is one numeric literal whose lexeme begins with the '-' and whose    *)
(* value is the negated value of the digits (negative unless that value   *)
(* is zero); it yields InvalidRealLiteral instead when the digits are      *)
(* followed by a '.' with no digit after it.  A '-' whose next character   *)
(* is not a digit, or that is the last character, scans as Minus.          *)

\* the value of the numeric token is minus the value of the digits of lex
NegatedDigits(type_, lex) ==
    IF type_.tag = "IntegerLiteral"
    THEN /\ type_.int.mag = StripLeadingZeros(DigitsOf(lex))
         /\ type_.int.neg = DigitsNonZero(DigitsOf(lex))
    ELSE type_.real = [parse_f64(Tail(lex)).value EXCEPT !.neg = TRUE]

\* the value of a numeric literal token is zero
ZeroValue(type_) ==
    IF type_.tag = "IntegerLiteral"
    THEN type_.int.mag = <<0>>
    ELSE type_.real \in {Zero(TRUE), Zero(FALSE)}

C3_MergedMinus ==
    \A i \in 1..Len(trace) :
        StartsWithMinus(i) =>
            IF MinusBeforeDigit(i)
            THEN \/ /\ IsNumeric(trace[i])
                    /\ trace[i].token.lexeme = Consumed(i)
                    /\ trace[i].end >= trace[i].start + 2
                    /\ NegatedDigits(trace[i].token.type_, Consumed(i))
                    /\ ~ NegativeValue(trace[i].token.type_) =>
                           ZeroValue(trace[i].token.type_)
                 \/ /\ ErrIs(trace[i], "InvalidRealLiteral")
                    /\ CharAt(trace[i].end) = "."
                    /\ ~ is_ascii_digit(CharAt(trace[i].end + 1))
            ELSE /\ TokIs(trace[i], "Minus")
                 /\ trace[i].end = trace[i].start + 1

C3_Witness ==
    /\ source = <<"-", "5", "-">>
    /\ Len(trace) = 2
    /\ trace[1].token.type_ = IntTok(I64(TRUE, <<5>>))
    /\ trace[1].token.lexeme = <<"-", "5">>
    /\ trace[2].token.type_ = [tag |-> "Minus"]

---------------------------------------------------------------------------
(* C4: every lexeme accepted as an integer literal (a maximal digit run of *)
(* any length, optionally after the merged minus, no point) converts to    *)
(* the 64-bit signed value without failing, and the value is the lexeme's  *)
(* decimal value.                                                          *)
C4_IntegerParseNeverFails ==
    /\ status # "panicked"
    /\ \A i \in 1..Len(trace) :
          TokIs(trace[i], "IntegerLiteral") =>
              LET lex == trace[i].token.lexeme
                  v   == trace[i].token.type_.int
              IN  /\ v.mag = StripLeadingZeros(DigitsOf(lex))
                  /\ v.neg = (lex[1] = "-" /\ DigitsNonZero(DigitsOf(lex)))

---------------------------------------------------------------------------
(* C5 as stated: a char literal is accepted only as quote, one character,  *)
(* quote, and holds that character; every other shape starting with a      *)
(* quote yields InvalidCharLiteral, in particular a quote immediately      *)
(* followed by a quote, whatever character follows it.                     *)

StartsWithQuote(i) == CharAt(trace[i].start + 1) = "'"

\* quote, one character, quote
CharShape(i) ==
    /\ CharAt(trace[i].start + 2) # "EOF"
    /\ CharAt(trace[i].start + 3) = "'"

HoldsChar(i) ==
    /\ TokIs(trace[i], "CharLiteral")
    /\ trace[i].token.type_.ch = CharAt(trace[i].start + 2)
    /\ trace[i].token.lexeme = SubSeq(source, trace[i].start + 1,
                                      trace[i].start + 3)

C5_CharLiteralEmptyAlwaysInvalid ==
    \A i \in 1..Len(trace) :
        StartsWithQuote(i) =>
            /\ IsTok(trace[i]) => (CharShape(i) /\ HoldsChar(i))
            /\ ~ CharShape(i) => ErrIs(trace[i], "InvalidCharLiteral")
            /\ CharAt(trace[i].start + 2) = "'" =>
                   ErrIs(trace[i], "InvalidCharLiteral")

(* C5 amended: a char literal is accepted exactly as quote, one character  *)
(* (any character, a quote included), quote, and holds that character;     *)
(* every other shape starting with a quote yields InvalidCharLiteral: a    *)
(* quote immediately followed by a quote that is not followed by a third   *)
(* quote, more than one character before the closing quote, and a missing  *)
(* closing quote.  Three quotes in a row are the char literal holding a    *)
(* quote.                                                                  *)
C5_CharLiteral ==
    \A i \in 1..Len(trace) :
        StartsWithQuote(i) =>
            IF CharShape(i)
            THEN HoldsChar(i)
            ELSE ErrIs(trace[i], "InvalidCharLiteral")

C5_Witness ==
    /\ source = <<"'", "x", "'", "'", "'", "a">>
    /\ Len(trace) = 3
    /\ TokIs(trace[1], "CharLiteral") /\ trace[1].token.type_.ch = "x"
    /\ ErrIs(trace[2], "InvalidCharLiteral")
    /\ TokIs(trace[3], "Identifier")

---------------------------------------------------------------------------
(* C6: after an opening double quote the scanner consumes up to the first  *)
(* double quote or newline.  Stopping at a double quote gives a            *)
(* StringLiteral whose value is exactly the characters between the two     *)
(* quotes, backslashes kept literally; stopping at a newline or at the end *)
(* of input gives UnterminatedString, the newline not consumed.            *)

StartsWithDoubleQuote(i) == CharAt(trace[i].start + 1) = "\""

\* the first position after the opening quote holding a double quote or a
\* newline, or one past the end of the source
StringStop(i) ==
    LET stops == {k \in (trace[i].start + 2)..Len(source) :
                      source[k] \in {"\"", "\n"}}
    IN  IF stops = {} THEN Len(source) + 1
        ELSE CHOOSE k \in stops : \A m \in stops : k <= m

C6_StringLiteral ==
    \A i \in 1..Len(trace) :
        StartsWithDoubleQuote(i) =>
            LET j == StringStop(i)
            IN  IF CharAt(j) = "\""
                THEN /\ TokIs(trace[i], "StringLiteral")
                     /\ trace[i].token.type_.str =
                            SubSeq(source, trace[i].start + 2, j - 1)
                     /\ trace[i].end = j
                ELSE /\ ErrIs(trace[i], "UnterminatedString")
                     /\ trace[i].end = j - 1

C6_Witness ==
    /\ source = <<"\"", "\\", "\"", "\"", "a", "\n">>
    /\ Len(trace) = 3
    /\ trace[1].token.type_ = [tag |-> "StringLiteral", str |-> <<"\\">>]
    /\ ErrIs(trace[2], "UnterminatedString")
    /\ trace[2].end = 5
    /\ TokIs(trace[3], "Whitespace")

---------------------------------------------------------------------------
(* C7: every token's location is the 1-based line and column of its first  *)
(* consumed character: line is 1 plus the number of newlines before the    *)
(* token, column is 1 plus the number of characters since the last such    *)
(* newline; its lexeme is exactly the substring consumed for it; line and  *)
(* column are never below 1.                                               *)

NewlinesBefore(k) == Cardinality({m \in 1..k : source[m] = "\n"})

\* the position of the last newline among the first k characters, 0 if none
LastNewline(k) ==
    LET nls == {m \in 1..k : source[m] = "\n"}
    IN  IF nls = {} THEN 0 ELSE CHOOSE m \in nls : \A n \in nls : n <= m

C7_TokenLocation ==
    \A i \in 1..Len(trace) :
        IsTok(trace[i]) =>
            LET tok   == trace[i].token
                start == trace[i].start
            IN  /\ tok.location.line = U32(1 + NewlinesBefore(start))
                /\ tok.location.column = U32(1 + (start - LastNewline(start)))
                /\ tok.lexeme = Consumed(i)
                /\ tok.location.line # <<0>>
                /\ tok.location.column # <<0>>

C7_Witness ==
    \E i \in 1..Len(trace) :
        /\ TokIs(trace[i], "Identifier")
        /\ trace[i].token.location.line # <<1>>
        /\ trace[i].token.location.column # <<1>>
        /\ i >= 3

(* C7, its last sentence, far into a long text: the line and the column    *)
(* of every token are never below 1, and its lexeme is exactly the         *)
(* substring consumed for it.  Where the build does not check overflow,    *)
(* the column after the 4294967295th of a line is 0, and so is the line    *)
(* after the 4294967295th.                                                 *)
C7_LineAndColumnAtLeastOne ==
    \A i \in 1..Len(trace) :
        IsTok(trace[i]) =>
            /\ trace[i].token.lexeme = Consumed(i)
            /\ trace[i].token.location.line # <<0>>
            /\ trace[i].token.location.column # <<0>>

\* where the build checks overflow no token has such a location: the call
\* that would have stepped past the range panicked
C7_CheckedBuildPanics ==
    overflow_checks =>
        /\ C7_LineAndColumnAtLeastOne
        /\ cur_location.line # <<0>> /\ cur_location.column # <<0>>

---------------------------------------------------------------------------
(* C8: every scan_next call on a source that is not exhausted consumes at  *)
(* least one character, whether it yields a token or a lexical error; so   *)
(* scanning n characters ends after at most n results and then reports     *)
(* exhaustion.                                                             *)
C8_ScanEndsByExhaustion ==
    /\ \A i \in 1..Len(trace) : trace[i].end > trace[i].start
    /\ Len(trace) <= Len(source)
    /\ status # "running" => (Exhausted /\ pos = Len(source))

---------------------------------------------------------------------------
(* C9: scan does not stop at the first lexical error: for every source it  *)
(* returns every lexical error of the whole input and every token that is  *)
(* not whitespace or a comment; scanning resumes at the first character    *)
(* the failed token did not consume, and what follows an error is          *)
(* classified as it would be without it.                                   *)

RECURSIVE ErrorsOf(_)
ErrorsOf(es) ==
    IF es = <<>> THEN <<>>
    ELSE (IF IsErr(Head(es)) THEN <<Head(es).error>> ELSE <<>>)
         \o ErrorsOf(Tail(es))

Relevant(e) == ~ (IsTok(e) /\ e.token.type_.tag \in {"Comment", "Whitespace"})

RECURSIVE RelevantTokensOf(_)
RelevantTokensOf(es) ==
    IF es = <<>> THEN <<>>
    ELSE (IF IsTok(Head(es)) /\ Relevant(Head(es))
          THEN <<Head(es).token>> ELSE <<>>)
         \o RelevantTokensOf(Tail(es))

\* the spans of the calls tile the source from its first character on
Contiguous ==
    /\ Len(trace) > 0 => trace[1].start = 0
    /\ \A i \in 1..(Len(trace) - 1) : trace[i + 1].start = trace[i].end

\* a scanner that starts afresh at position k of the source
FreshAt(k) ==
    [pos |-> k, cur_lexeme |-> <<>>,
     cur_location |-> [line   |-> U32(1 + NewlinesBefore(k)),
                       column |-> U32(1 + (k - LastNewline(k)))],
     unwinding |-> FALSE]

\* the i-th result is what a scanner that saw no earlier result gives
ClassifiedAfresh(i) ==
    LET r == scan_next(FreshAt(trace[i].start))
    IN  /\ r.kind = trace[i].kind
        /\ r.s.pos = trace[i].end
        /\ IsTok(trace[i]) => r.token = trace[i].token
        /\ IsErr(trace[i]) => r.error = trace[i].error

ScanCollects ==
    /\ errors = ErrorsOf(trace)
    /\ tokens = RelevantTokensOf(trace)
    /\ Contiguous
    /\ \A i \in 1..Len(trace) : ClassifiedAfresh(i)

C9_ScanReturnsAllErrorsAndTokens ==
    driver = "scan" =>
        /\ ScanCollects
        /\ status # "running" => (status = "returned" /\ pos = Len(source))

---------------------------------------------------------------------------
(* C10: the filtering token stream never yields a Whitespace or Comment    *)
(* token and drops nothing else: what it has yielded is the unfiltered     *)
(* sequence of results with exactly the Whitespace and Comment tokens      *)
(* removed, every lexical error kept in its place.                         *)

RECURSIVE RelevantItemsOf(_)
RelevantItemsOf(es) ==
    IF es = <<>> THEN <<>>
    ELSE (IF Relevant(Head(es))
          THEN << IF IsTok(Head(es))
                  THEN [kind |-> "Ok", token |-> Head(es).token]
                  ELSE [kind |-> "Err", error |-> Head(es).error] >>
          ELSE <<>>)
         \o RelevantItemsOf(Tail(es))

C10_FilterDropsExactlyIrrelevant ==
    driver \in {"TokenStream", "scan"} =>
        /\ \A i \in 1..Len(yielded) : Relevant(yielded[i])
        /\ yielded = RelevantItemsOf(trace)

C10_Witness ==
    /\ driver = "TokenStream"
    /\ status = "exhausted"
    /\ Len(yielded) >= 3
    /\ \E i \in 2..(Len(trace) - 1) :
          /\ IsErr(trace[i])
          /\ TokIs(trace[i - 1], "Whitespace")
          /\ TokIs(trace[i + 1], "Comment")

---------------------------------------------------------------------------
(* TokenBuffer.  A parser state p is [items, current, identifier_map, log]: *)
(* the buffer with its cursor, the interner, and the record of what the    *)
(* call did so far.                                                        *)

None == [some |-> FALSE]

Some(value) == [some |-> TRUE, value |-> value]

ParseOk(p, node) == [p |-> p, kind |-> "Ok", node |-> node]

ParseErr(p, error) == [p |-> p, kind |-> "Err", error |-> error]

\* a panic: "unwrap" (unexpected_token! with no current token) or
\* "unimplemented" (a branch that is unimplemented!())
ParsePanic(p, why) == [p |-> p, kind |-> "Panic", why |-> why]

\* a loop that never ends: its state recurs
ParseDiverge(p) == [p |-> p, kind |-> "Diverge"]

UnexpectedEOF == [tag |-> "UnexpectedEOF"]

UnexpectedToken(token) == [tag |-> "UnexpectedToken", token |-> token]

Logged(p, event) == [p EXCEPT !.log = Append(@, event)]

HasCurrent(p) == p.current < Len(p.items)

\* TokenBuffer::current_token on a buffer that has one
current_token(p) == p.items[p.current + 1]

peek(p) == IF HasCurrent(p) THEN Some(current_token(p).type_) ELSE None

\* TokenBuffer::next, but the cursor moves also when there is no token left
next_always_advances(p) ==
    [p   |-> Logged([p EXCEPT !.current = @ + 1],
                    [op |-> "next", before |-> p.current,
                     after |-> p.current + 1]),
     res |-> peek(p)]

\* TokenBuffer::next: the cursor moves only when there is a token
TokenBuffer_next(p) ==
    [p   |-> Logged([p EXCEPT !.current = IF HasCurrent(p) THEN @ + 1 ELSE @],
                    [op |-> "next", before |-> p.current,
                     after |-> IF HasCurrent(p) THEN p.current + 1
                                                ELSE p.current]),
     res |-> peek(p)]

\* unexpected_token!: Err(UnexpectedToken(current_token().unwrap().clone()))
unexpected_token(p) ==
    IF HasCurrent(p) THEN ParseErr(p, UnexpectedToken(current_token(p)))
                     ELSE ParsePanic(p, "unwrap")

\* consume, but a token of another type is skipped before it is reported
consume_skips_mismatch(p, type_) ==
    IF ~ HasCurrent(p)
    THEN ParseErr(Logged(p, [op |-> "consume", type_ |-> type_,
                             before |-> p.current, after |-> p.current]),
                  UnexpectedEOF)
    ELSE IF current_token(p).type_ = type_
    THEN ParseOk(Logged(TokenBuffer_next(p).p,
                        [op |-> "consume", type_ |-> type_,
                         before |-> p.current, after |-> p.current + 1]),
                 <<>>)
    ELSE unexpected_token(Logged(TokenBuffer_next(p).p,
                                 [op |-> "consume", type_ |-> type_,
                                  before |-> p.current,
                                  after |-> p.current + 1]))

consume(p, type_) ==
    IF ~ HasCurrent(p)
    THEN ParseErr(Logged(p, [op |-> "consume", type_ |-> type_,
                             before |-> p.current, after |-> p.current]),
                  UnexpectedEOF)
    ELSE IF current_token(p).type_ = type_
    THEN ParseOk(Logged(TokenBuffer_next(p).p,
                        [op |-> "consume", type_ |-> type_,
                         before |-> p.current, after |-> p.current + 1]),
                 <<>>)
    ELSE unexpected_token(Logged(p, [op |-> "consume", type_ |-> type_,
                                     before |-> p.current,
                                     after |-> p.current]))

next_if_equal(p, other) ==
    IF HasCurrent(p) /\ current_token(p).type_ = other
    THEN TokenBuffer_next(p)
    ELSE [p |-> p, res |-> None]

\* backtrack, but the cursor steps back over two tokens
backtrack_two_tokens(p) ==
    Logged([p EXCEPT !.current = IF @ > 1 THEN @ - 2 ELSE 0],
           [op |-> "backtrack", before |-> p.current,
            after |-> IF p.current > 1 THEN p.current - 2 ELSE 0])

backtrack(p) ==
    Logged([p EXCEPT !.current = IF @ > 0 THEN @ - 1 ELSE @],
           [op |-> "backtrack", before |-> p.current,
            after |-> IF p.current > 0 THEN p.current - 1 ELSE p.current])

TokenBuffer_from_iter(iter) == [items |-> iter, current |-> 0]

---------------------------------------------------------------------------
(* Parser: the interner and the expression grammar.                        *)

Parser_new == [identifier_map |-> {}]

HandleOf(map, ident) == (CHOOSE e \in map : e[1] = ident)[2]

\* get_ident_handle, but a new handle is the size of the map plus one
get_ident_handle_from_one(p, ident) ==
    IF \E e \in p.identifier_map : e[1] = ident
    THEN [p |-> Logged(p, [op |-> "get_ident_handle", ident |-> ident,
                           handle |-> HandleOf(p.identifier_map, ident)]),
          handle |-> HandleOf(p.identifier_map, ident)]
    ELSE [p |-> Logged([p EXCEPT !.identifier_map =
                            @ \cup {<<ident, Cardinality(p.identifier_map) + 1>>}],
                       [op |-> "get_ident_handle", ident |-> ident,
                        handle |-> Cardinality(p.identifier_map) + 1]),
          handle |-> Cardinality(p.identifier_map) + 1]

\* Parser::get_ident_handle: the handle, and the parser afterwards
get_ident_handle(p, ident) ==
    IF \E e \in p.identifier_map : e[1] = ident
    THEN [p |-> Logged(p, [op |-> "get_ident_handle", ident |-> ident,
                           handle |-> HandleOf(p.identifier_map, ident)]),
          handle |-> HandleOf(p.identifier_map, ident)]
    ELSE [p |-> Logged([p EXCEPT !.identifier_map =
                            @ \cup {<<ident, Cardinality(p.identifier_map)>>}],
                       [op |-> "get_ident_handle", ident |-> ident,
                        handle |-> Cardinality(p.identifier_map)]),
          handle |-> Cardinality(p.identifier_map)]

\* the nodes of ast::Expr
Binary(left, operator, right) ==
    [tag |-> "Binary", left |-> left, operator |-> operator, right |-> right]

Unary(operator, right) == [tag |-> "Unary", operator |-> operator, right |-> right]

FunctionCall(function, args) ==
    [tag |-> "FunctionCall", function |-> function, args |-> args]

ArrayIndex(array, indexes) ==
    [tag |-> "ArrayIndex", array |-> array, indexes |-> indexes]

Identifier(handle) == [tag |-> "Identifier", handle |-> handle]

Literal(lit) == [tag |-> "Literal", lit |-> lit]

\* the tokens each binary_op! instance takes as operators, with the
\* BinaryOperator each stands for
BinaryOperators(name) ==
    CASE name = "parse_logic_or"   -> {<<"Or", "LogicOr">>}
      [] name = "parse_logic_and"  -> {<<"And", "LogicAnd">>}
      [] name = "parse_comparison" ->
             {<<"Equal", "Equal">>, <<"NotEqual", "NotEqual">>,
              <<"Less", "Less">>, <<"LessEqual", "LessEqual">>,
              <<"Greater", "Greater">>, <<"GreaterEqual", "GreaterEqual">>}
      [] name = "parse_term"       -> {<<"Plus", "Plus">>, <<"Minus", "Minus">>}
      [] name = "parse_factor"     -> {<<"Star", "Star">>, <<"Slash", "Slash">>}

\* match tokens.peek() { Some(TokenType::$token) => $op, _ => break }
OperatorAhead(name, p) ==
    /\ HasCurrent(p)
    /\ \E o \in BinaryOperators(name) : o[1] = current_token(p).type_.tag

OperatorOf(name, p) ==
    (CHOOSE o \in BinaryOperators(name) : o[1] = current_token(p).type_.tag)[2]

RECURSIVE parse_expression(_)
RECURSIVE parse_logic_or(_)
RECURSIVE parse_logic_and(_)
RECURSIVE parse_logic_not(_)
RECURSIVE parse_comparison(_)
RECURSIVE parse_term(_)
RECURSIVE parse_factor(_)
RECURSIVE parse_call(_)
RECURSIVE parse_primary(_)
RECURSIVE binary_op(_, _)
RECURSIVE binary_op_loop(_, _)
RECURSIVE binary_op_right(_, _, _, _)
RECURSIVE call_loop(_)
RECURSIVE comma_separated_end(_, _)
RECURSIVE comma_separated_end_item(_, _, _)

\* binary_op_parent, but every level takes its operands from parse_call
binary_op_parent_one_level(name, p) == parse_call(p)

\* self.$parent(tokens) of each binary_op! instance
binary_op_parent(name, p) ==
    CASE name = "parse_logic_or"   -> parse_logic_and(p)
      [] name = "parse_logic_and"  -> parse_logic_not(p)
      [] name = "parse_comparison" -> parse_term(p)
      [] name = "parse_term"       -> parse_factor(p)
      [] name = "parse_factor"     -> parse_call(p)

\* the body of the loop after tokens.next(): the right operand, then the
\* new left
binary_op_right(name, left, op, right) ==
    IF right.kind # "Ok" THEN right
    ELSE binary_op_loop(name, ParseOk(right.p, Binary(left, op, right.node)))

\* the loop of binary_op!; left is the result parsed so far
binary_op_loop(name, left) ==
    IF left.kind # "Ok" THEN left
    ELSE IF OperatorAhead(name, left.p)
    THEN binary_op_right(name, left.node, OperatorOf(name, left.p),
                         binary_op_parent(name, TokenBuffer_next(left.p).p))
    ELSE left

binary_op(name, p) == binary_op_loop(name, binary_op_parent(name, p))

parse_expression(p) == parse_logic_or(p)

parse_logic_or(p) == binary_op("parse_logic_or", p)

parse_logic_and(p) == binary_op("parse_logic_and", p)

\* Ok(Expr::Unary { operator: LogicNot, right: Box::new(..?) })
logic_not_of(right) ==
    IF right.kind # "Ok" THEN right
    ELSE ParseOk(right.p, Unary("LogicNot", right.node))

\* logic_not_branch, but the operand of NOT is a term
logic_not_branch_operand_term(c) ==
    IF c.kind = "Ok" THEN logic_not_of(parse_term(c.p))
                     ELSE parse_comparison(c.p)

\* logic_not_branch, but the operand of NOT is a whole expression
logic_not_branch_operand_logic_or(c) ==
    IF c.kind = "Ok" THEN logic_not_of(parse_logic_or(c.p))
                     ELSE parse_comparison(c.p)

\* the if of parse_logic_not on the result c of consume(Not)
logic_not_branch(c) ==
    IF c.kind = "Ok" THEN logic_not_of(parse_logic_not(c.p))
                     ELSE parse_comparison(c.p)

parse_logic_not(p) == logic_not_branch(consume(p, [tag |-> "Not"]))

parse_comparison(p) == binary_op("parse_comparison", p)

parse_term(p) == binary_op("parse_term", p)

parse_factor(p) == binary_op("parse_factor", p)

\* comma_separated! with an end delimiter, after an element e: the match on
\* tokens.next()
comma_separated_end_next(right, n, end) ==
    IF ~ n.res.some THEN ParseErr(n.p, UnexpectedEOF)
    ELSE IF n.res.value.tag = end THEN ParseOk(n.p, right)
    ELSE IF n.res.value.tag = "Comma"
    THEN comma_separated_end_item(right, parse_expression(n.p), end)
    ELSE unexpected_token(backtrack(n.p))

\* right.push($getter?) and the match that follows it
comma_separated_end_item(right, e, end) ==
    IF e.kind # "Ok" THEN e
    ELSE comma_separated_end_next(Append(right, e.node),
                                  TokenBuffer_next(e.p), end)

\* the start of comma_separated! with an end delimiter, on the result n of
\* next_if_equal(end)
comma_separated_end_first(n, end) ==
    IF n.res.some THEN ParseOk(n.p, <<>>)
    ELSE comma_separated_end_item(<<>>, parse_expression(n.p), end)

comma_separated_end(p, end) ==
    comma_separated_end_first(next_if_equal(p, [tag |-> end]), end)

\* the new left of parse_call from the list right
call_node(tag, left, right) ==
    IF right.kind # "Ok" THEN right
    ELSE call_loop(ParseOk(right.p,
                           IF tag = "FunctionCall"
                           THEN FunctionCall(left, right.node)
                           ELSE ArrayIndex(left, right.node)))

\* the match on tokens.next() in the loop of parse_call
call_match(left, n) ==
    IF n.res.some /\ n.res.value.tag = "LParen"
    THEN call_node("FunctionCall", left, comma_separated_end(n.p, "RParen"))
    ELSE IF n.res.some /\ n.res.value.tag = "LBracket"
    THEN call_node("ArrayIndex", left, comma_separated_end(n.p, "RBracket"))
    ELSE ParseOk(backtrack(n.p), left)

call_loop(left) ==
    IF left.kind # "Ok" THEN left
    ELSE call_match(left.node, TokenBuffer_next(left.p))

parse_call(p) == call_loop(parse_primary(p))

\* Expr::Identifier { handle: self.get_ident_handle(ident) }
primary_identifier(h) == ParseOk(h.p, Identifier(h.handle))

\* tokens.consume(&TokenType::RParen)?; inner
primary_close(inner, c) ==
    IF c.kind # "Ok" THEN c ELSE ParseOk(c.p, inner)

\* the LParen arm of parse_primary
primary_paren(inner) ==
    IF inner.kind # "Ok" THEN inner
    ELSE primary_close(inner.node, consume(inner.p, [tag |-> "RParen"]))

\* the match on next_token in parse_primary
primary_match(p, type_) ==
    CASE type_.tag = "Identifier" ->
             primary_identifier(get_ident_handle(p, type_.name))
      [] type_.tag = "CharLiteral" ->
             ParseOk(p, Literal([tag |-> "Char", ch |-> type_.ch]))
      [] type_.tag = "StringLiteral" ->
             ParseOk(p, Literal([tag |-> "String", str |-> type_.str]))
      [] type_.tag = "IntegerLiteral" ->
             ParseOk(p, Literal([tag |-> "Integer", int |-> type_.int]))
      [] type_.tag = "RealLiteral" ->
             ParseOk(p, Literal([tag |-> "Real", real |-> type_.real]))
      [] type_.tag = "BooleanLiteral" ->
             ParseOk(p, Literal([tag |-> "Boolean", bool |-> type_.bool]))
      [] type_.tag = "LParen" -> primary_paren(parse_expression(p))
      [] OTHER -> unexpected_token(backtrack(p))

primary_next(n) ==
    IF ~ n.res.some THEN ParseErr(n.p, UnexpectedEOF)
                    ELSE primary_match(n.p, n.res.value)

parse_primary(p) == primary_next(TokenBuffer_next(p))

\* the match on expr in parse_identifier
identifier_match(expr) ==
    IF expr.kind # "Ok" THEN expr
    ELSE IF expr.node.tag = "Identifier" THEN expr
    ELSE unexpected_token(expr.p)

parse_identifier(p) == identifier_match(parse_primary(p))


---------------------------------------------------------------------------
(* Parser: the statement grammar.  A branch of parse_stmt is a sequence of *)
(* steps, each followed by `?` in the source: the first step that does not *)
(* return Ok ends the branch with its result, and the values of the steps  *)
(* are collected in order for the node.                                    *)

Block(contents) == [contents |-> contents]

Primitive(type_) == [tag |-> "Primitive", primitive |-> type_]

Parameter(name, type_) == [name |-> name, type_ |-> type_]

Consume(tag) == [do |-> "consume", type_ |-> tag]

Do(what) == [do |-> what]

\* the steps of each branch of parse_stmt, by the token that selects it
Steps(tag) ==
    CASE tag = "Procedure" ->
             <<Do("parse_identifier"), Do("parse_parameter_list"),
               Do("parse_block"), Consume("EndProcedure")>>
      [] tag = "Function" ->
             <<Do("parse_identifier"), Do("parse_parameter_list"),
               Consume("Returns"), Do("parse_type"), Do("parse_block"),
               Consume("EndFunction")>>
      [] tag = "If" ->
             <<Do("parse_expression"), Consume("Then"), Do("parse_block"),
               Do("else_branch"), Consume("EndIf")>>
      [] tag = "Return" -> <<Do("parse_expression")>>
      [] tag = "For" ->
             <<Do("parse_assignable"), Consume("LArrow"),
               Do("parse_expression"), Consume("To"), Do("parse_expression"),
               Do("step"), Do("parse_block"), Consume("Next")>>
      [] tag = "Repeat" ->
             <<Do("parse_block"), Consume("Until"), Do("parse_expression")>>
      [] tag = "While" ->
             <<Do("parse_expression"), Consume("Do"), Do("parse_block"),
               Consume("EndWhile")>>
      [] tag = "Declare" ->
             <<Do("parse_identifier"), Consume("Colon"), Do("parse_type")>>
      [] tag = "Constant" ->
             <<Do("parse_identifier"), Consume("LArrow"), Do("value")>>
      [] tag = "Input" -> <<Do("comma_separated")>>
      [] tag = "Output" -> <<Do("comma_separated")>>
      [] OTHER ->
             <<Do("backtrack"), Do("parse_assignable"), Consume("LArrow"),
               Do("parse_expression")>>

\* the Stmt each branch builds from the values v of its steps
Stmt(tag, v) ==
    CASE tag = "Procedure" ->
             [tag |-> "ProcedureDecl", name |-> v[1], params |-> v[2],
              body |-> v[3]]
      [] tag = "Function" ->
             [tag |-> "FunctionDecl", name |-> v[1], params |-> v[2],
              return_type |-> v[4], body |-> v[5]]
      [] tag = "If" ->
             [tag |-> "If", condition |-> v[1], then_branch |-> v[3],
              else_branch |-> v[4]]
      [] tag = "Return" -> [tag |-> "Return", expr |-> v[1]]
      [] tag = "For" ->
             [tag |-> "ForLoop", target |-> v[1], start |-> v[3],
              end |-> v[5], step |-> v[6], body |-> v[7]]
      [] tag = "Repeat" ->
             [tag |-> "RepeatUntil", condition |-> v[3], body |-> v[1]]
      [] tag = "While" ->
             [tag |-> "While", condition |-> v[1], body |-> v[3]]
      [] tag = "Declare" ->
             [tag |-> "VariableDecl", name |-> v[1], type_ |-> v[3]]
      [] tag = "Constant" ->
             [tag |-> "ConstantDecl", name |-> v[1], value |-> v[3]]
      [] tag = "Input" -> [tag |-> "Input", exprs |-> v[1]]
      [] tag = "Output" -> [tag |-> "Output", exprs |-> v[1]]
      [] OTHER -> [tag |-> "Assignment", target |-> v[2], value |-> v[4]]

Unimplemented == {"Case", "Call", "OpenFile", "ReadFile", "WriteFile", "CloseFile"}

PrimitiveTypes == {"Integer", "Real", "String", "Char", "Boolean"}

RECURSIVE parse_block(_)
RECURSIVE block_loop(_, _)
RECURSIVE parse_stmt(_)
RECURSIVE run_steps(_, _, _)
RECURSIVE run_step(_, _)
RECURSIVE comma_separated(_, _)
RECURSIVE comma_separated_item(_, _, _)

\* the match on tokens.next() in parse_type
type_match(n) ==
    IF ~ n.res.some THEN ParseErr(n.p, UnexpectedEOF)
    ELSE IF n.res.value.tag \in PrimitiveTypes
    THEN ParseOk(n.p, Primitive(n.res.value.tag))
    ELSE IF n.res.value.tag = "Array" THEN ParsePanic(n.p, "unimplemented")
    ELSE unexpected_token(backtrack(n.p))

parse_type(p) == type_match(TokenBuffer_next(p))

parse_assignable(p) == parse_call(p)

\* Ok(Parameter { name, type_ })
parameter_of(v) ==
    IF v.kind # "Ok" THEN v ELSE ParseOk(v.p, Parameter(v.node[1], v.node[3]))

parse_parameter(p) ==
    parameter_of(run_steps(p, <<Do("parse_identifier"), Consume("Colon"),
                                Do("parse_type")>>, <<>>))

\* $getter of the two uses of comma_separated! without an end delimiter
getter(name, p) ==
    IF name = "parse_parameter" THEN parse_parameter(p) ELSE parse_expression(p)

\* the match on tokens.peek() after an element
comma_separated_peek(name, right, p) ==
    IF ~ HasCurrent(p) THEN ParseErr(p, UnexpectedEOF)
    ELSE IF current_token(p).type_.tag = "Comma"
    THEN comma_separated_item(name, right, getter(name, TokenBuffer_next(p).p))
    ELSE ParseOk(p, right)

\* right.push($getter?) and the match that follows it
comma_separated_item(name, right, e) ==
    IF e.kind # "Ok" THEN e
    ELSE comma_separated_peek(name, Append(right, e.node), e.p)

\* comma_separated! without an end delimiter
comma_separated(name, p) == comma_separated_item(name, <<>>, getter(name, p))

\* tokens.consume(&TokenType::RParen)?; Some(params)
parameter_list_close(params, c) ==
    IF c.kind # "Ok" THEN c ELSE ParseOk(c.p, Some(params))

parameter_list_params(params) ==
    IF params.kind # "Ok" THEN params
    ELSE parameter_list_close(params.node,
                              consume(params.p, [tag |-> "RParen"]))

\* parameter_list_match, but the list must be there
parameter_list_match_requires_list(n) ==
    IF n.res.some
    THEN parameter_list_params(comma_separated("parse_parameter", n.p))
    ELSE unexpected_token(n.p)

\* the match on next_if_equal(LParen) in parse_parameter_list
parameter_list_match(n) ==
    IF n.res.some
    THEN parameter_list_params(comma_separated("parse_parameter", n.p))
    ELSE ParseOk(n.p, None)

parse_parameter_list(p) ==
    parameter_list_match(next_if_equal(p, [tag |-> "LParen"]))

\* Some(..) of the clause parsed after a probe that matched
some_of(r) == IF r.kind # "Ok" THEN r ELSE ParseOk(r.p, Some(r.node))

\* what a probe did: the cursor before and after it
Probed(c, type_, before) ==
    Logged(c.p, [op |-> "probe", type_ |-> type_, before |-> before,
                 after |-> c.p.current, taken |-> c.kind = "Ok"])

\* match tokens.consume(&TokenType::Else) { Ok(_) => Some(parse_block),
\*                                          Err(_) => None }
else_branch(c, before) ==
    IF c.kind = "Ok" THEN some_of(parse_block(Probed(c, "Else", before)))
    ELSE IF c.kind = "Err" THEN ParseOk(Probed(c, "Else", before), None)
    ELSE c

\* match tokens.consume(&TokenType::Step) { Ok(_) => Some(parse_expression?),
\*                                          Err(_) => None }
step(c, before) ==
    IF c.kind = "Ok" THEN some_of(parse_expression(Probed(c, "Step", before)))
    ELSE IF c.kind = "Err" THEN ParseOk(Probed(c, "Step", before), None)
    ELSE c

\* match self.parse_primary(tokens)? { Expr::Literal(l) => l,
\*                                     _ => return unexpected_token!(tokens) }
value(expr) ==
    IF expr.kind # "Ok" THEN expr
    ELSE IF expr.node.tag = "Literal" THEN ParseOk(expr.p, expr.node.lit)
    ELSE unexpected_token(expr.p)

run_step(p, s) ==
    CASE s.do = "consume" -> consume(p, [tag |-> s.type_])
      [] s.do = "parse_identifier" -> parse_identifier(p)
      [] s.do = "parse_parameter_list" -> parse_parameter_list(p)
      [] s.do = "parse_block" -> parse_block(p)
      [] s.do = "parse_type" -> parse_type(p)
      [] s.do = "parse_expression" -> parse_expression(p)
      [] s.do = "parse_assignable" -> parse_assignable(p)
      [] s.do = "else_branch" ->
             else_branch(consume(p, [tag |-> "Else"]), p.current)
      [] s.do = "step" -> step(consume(p, [tag |-> "Step"]), p.current)
      [] s.do = "value" -> value(parse_primary(p))
      [] s.do = "comma_separated" -> comma_separated("parse_expression", p)
      [] s.do = "backtrack" -> ParseOk(backtrack(p), <<>>)

\* the `?` after a step: its value joins v, or its result ends the branch
run_steps_after(r, steps, v) ==
    IF r.kind # "Ok" THEN r ELSE run_steps(r.p, steps, Append(v, r.node))

run_steps(p, steps, v) ==
    IF steps = <<>> THEN ParseOk(p, v)
    ELSE run_steps_after(run_step(p, Head(steps)), Tail(steps), v)

\* Ok(res)
stmt_of(tag, v) ==
    IF v.kind # "Ok" THEN v ELSE ParseOk(v.p, Stmt(tag, v.node))

\* the match on next_token in parse_stmt
stmt_match(n) ==
    IF ~ n.res.some THEN ParseErr(n.p, UnexpectedEOF)
    ELSE IF n.res.value.tag \in Unimplemented
    THEN ParsePanic(n.p, "unimplemented")
    ELSE stmt_of(n.res.value.tag,
                 run_steps(n.p, Steps(n.res.value.tag), <<>>))

parse_stmt(p) == stmt_match(TokenBuffer_next(p))

\* contents.push(stmt), with the cursors of the attempt that gave stmt
block_push(p, r) ==
    Logged(r.p, [op |-> "block_push", before |-> p.current,
                 after |-> r.p.current])

\* the while let of parse_block on the result r of the attempt made at p.
\* An attempt depends on the buffer and the cursor only, so a successful
\* attempt that leaves the cursor where it started is repeated for ever.
block_after(p, contents, r) ==
    IF r.kind = "Ok"
    THEN IF r.p.current = p.current
         THEN ParseDiverge(block_push(p, r))
         ELSE block_loop(block_push(p, r), Append(contents, r.node))
    ELSE IF r.kind \in {"Panic", "Diverge"} THEN r
    ELSE ParseOk(Logged(r.p, [op |-> "block_stop", before |-> p.current,
                              after |-> r.p.current, error |-> r.error]),
                 Block(contents))

block_loop(p, contents) == block_after(p, contents, parse_stmt(p))

parse_block(p) == block_loop(p, <<>>)


---------------------------------------------------------------------------
(* The parse calls.  A source text is a sequence of words separated by one *)
(* space; the token buffer holds the tokens scan returns for it.           *)

MaxTokens == 4

\* the characters of a word; a word of one character is that character
Spelling(w) ==
    CASE w = "AND" -> <<"A","N","D">>
      [] w = "OR" -> <<"O","R">>
      [] w = "NOT" -> <<"N","O","T">>
      [] w = "<-" -> <<"<","-">>
      [] w = "<>" -> <<"<",">">>
      [] w = "<=" -> <<"<","=">>
      [] w = "foo" -> <<"f","o","o">>
      [] w = "TRUE" -> <<"T","R","U","E">>
      [] w = "IF" -> <<"I","F">>
      [] w = "THEN" -> <<"T","H","E","N">>
      [] w = "ELSE" -> <<"E","L","S","E">>
      [] w = "ENDIF" -> <<"E","N","D","I","F">>
      [] w = "FOR" -> <<"F","O","R">>
      [] w = "TO" -> <<"T","O">>
      [] w = "STEP" -> <<"S","T","E","P">>
      [] w = "NEXT" -> <<"N","E","X","T">>
      [] w = "REPEAT" -> <<"R","E","P","E","A","T">>
      [] w = "UNTIL" -> <<"U","N","T","I","L">>
      [] w = "WHILE" -> <<"W","H","I","L","E">>
      [] w = "DO" -> <<"D","O">>
      [] w = "ENDWHILE" -> <<"E","N","D","W","H","I","L","E">>
      [] w = "DECLARE" -> <<"D","E","C","L","A","R","E">>
      [] w = "CONSTANT" -> <<"C","O","N","S","T","A","N","T">>
      [] w = "INPUT" -> <<"I","N","P","U","T">>
      [] w = "OUTPUT" -> <<"O","U","T","P","U","T">>
      [] w = "RETURN" -> <<"R","E","T","U","R","N">>
      [] w = "RETURNS" -> <<"R","E","T","U","R","N","S">>
      [] w = "PROCEDURE" -> <<"P","R","O","C","E","D","U","R","E">>
      [] w = "ENDPROCEDURE" -> <<"E","N","D","P","R","O","C","E","D","U","R","E">>
      [] w = "FUNCTION" -> <<"F","U","N","C","T","I","O","N">>
      [] w = "ENDFUNCTION" -> <<"E","N","D","F","U","N","C","T","I","O","N">>
      [] w = "INTEGER" -> <<"I","N","T","E","G","E","R">>
      [] w = "REAL" -> <<"R","E","A","L">>
      [] w = "ARRAY" -> <<"A","R","R","A","Y">>
      [] w = "CASE" -> <<"C","A","S","E">>
      [] w = "CALL" -> <<"C","A","L","L">>
      [] OTHER -> <<w>>

RECURSIVE Text(_)
Text(ws) ==
    IF ws = <<>> THEN <<>>
    ELSE IF Len(ws) = 1 THEN Spelling(ws[1])
    ELSE Spelling(Head(ws)) \o <<" ">> \o Text(Tail(ws))

ExprWords == {"a", "b", "1", "+", "-", "*", "=", "AND", "OR", "NOT", "(", ")", ","}

\* words of declarations, for parse_statement
StmtWords == {"x", "1", "<-", ":", "(", ")", "INTEGER", "DECLARE", "CONSTANT",
              "PROCEDURE", "ENDPROCEDURE"}

\* words of assignments and control flow, for parse_block
BlockWords == {"x", "y", "1", "<-", "IF", "THEN", "ELSE", "ENDIF", "REPEAT",
               "UNTIL", "OUTPUT"}

\* expressions of the documented examples, and longer ones of each level
ExprExamples ==
    { <<"1", "+", "2", "*", "3">>, <<"a", "-", "b", "-", "c">>,
      <<"NOT", "a", "=", "b">>, <<"NOT", "a", "AND", "b">>,
      <<"NOT", "NOT", "a">>, <<"a", "OR", "b", "AND", "c">>,
      <<"a", "AND", "b", "OR", "c">>, <<"a", "=", "b", "AND", "c", "<>", "d">>,
      <<"a", "+", "b", "=", "c", "*", "d">>, <<"a", "/", "b", "/", "c">>,
      <<"a", "*", "(", "b", "+", "c", ")">>, <<"1", "+", "2", "<", "3", "OR", "a">>,
      <<"a", "<=", "b", "OR", "NOT", "c", ">", "d">>,
      <<"f", "(", "a", ",", "b", ")">>, <<"f", "(", ")">>, <<"a", "[", "1", "]">>,
      <<"a", "[", "1", ",", "2", "]", "(", "b", ")">>, <<"f", "(", "a", ",", ")">>,
      <<"f", "(", "a", "b", ")">>, <<"f", "(", "a">>, <<"f", "(", "a", ",">>,
      <<"(", "a">>, <<"a", "[", "]">>, <<"TRUE", "AND", "a">>,
      <<"a", "+", "a", "*", "b", "-", "c", "+", "b">>,
      <<"a", "-", "b", "-", "c", "*", "d">>, <<"a", "+", "IF">> }

\* statements of the documented examples, and others of each branch
StmtExamples ==
    { <<"IF", "x", "THEN", "y", "<-", "1", "ENDIF">>,
      <<"IF", "x", "THEN", "y", "<-", "1", "ELSE", "y", "<-", "2", "ENDIF">>,
      <<"IF", "x", "THEN", "ELSE", "ENDIF">>,
      <<"IF", "c", "THEN", "y", "ENDIF">>,
      <<"IF", "c", "THEN", "y", "<-", "ENDIF">>,
      <<"IF", "c", "THEN", "x", "<-", "1", "y", "<-", "ENDIF">>,
      <<"FOR", "i", "<-", "1", "TO", "3", "x", "<-", "i", "NEXT">>,
      <<"FOR", "i", "<-", "1", "TO", "3", "STEP", "2", "x", "<-", "i", "NEXT">>,
      <<"FOR", "i", "<-", "1", "TO", "3", "STEP", "NEXT">>,
      <<"FOR", "i", "<-", "1", "TO", "3", "NEXT">>,
      <<"CONSTANT", "x", "<-", "foo", "(", ")">>, <<"CONSTANT", "x", "<-", "y">>,
      <<"CONSTANT", "x", "<-", "(", "1", ")">>, <<"CONSTANT", "x", "<-", "1">>,
      <<"CONSTANT", "x", "<-", "TRUE">>, <<"CONSTANT", "x", "<-", "y", "z">>,
      <<"CONSTANT", "x", "<-", "1", "+", "2">>,
      <<"DECLARE", "5">>, <<"DECLARE", "5", ":", "INTEGER">>,
      <<"DECLARE", "x", ":", "REAL">>, <<"DECLARE", "x", ":", "ARRAY">>,
      <<"DECLARE", "x", ":", "y">>,
      <<"PROCEDURE", "p", "(", ")", "ENDPROCEDURE">>,
      <<"PROCEDURE", "p", "ENDPROCEDURE">>,
      <<"PROCEDURE", "p", "x", "<-", "1", "ENDPROCEDURE">>,
      <<"PROCEDURE", "p", "(", "a", ":", "INTEGER", ")", "ENDPROCEDURE">>,
      <<"PROCEDURE", "p", "(", "a", ":", "INTEGER", ",", "b", ":", "REAL", ")",
        "x", "<-", "a", "ENDPROCEDURE">>,
      <<"PROCEDURE", "p", "(", "a", ":", "INTEGER", ",", ")", "ENDPROCEDURE">>,
      <<"PROCEDURE", "p", "(", "a", ":", "INTEGER">>,
      <<"PROCEDURE", "5">>,
      <<"FUNCTION", "f", "(", ")", "RETURNS", "INTEGER", "ENDFUNCTION">>,
      <<"FUNCTION", "f", "RETURNS", "INTEGER", "RETURN", "1", "ENDFUNCTION">>,
      <<"FUNCTION", "f", "(", "a", ":", "INTEGER", ")", "RETURNS", "INTEGER",
        "RETURN", "a", "ENDFUNCTION">>,
      <<"FUNCTION", "f", "ENDFUNCTION">>,
      <<"REPEAT", "x", "<-", "1", "UNTIL", "x", "=", "1">>,
      <<"WHILE", "x", "DO", "x", "<-", "1", "ENDWHILE">>,
      <<"INPUT", "x", ",", "y", "z">>, <<"INPUT", "x", ",", "y">>,
      <<"OUTPUT", "x">>, <<"OUTPUT", "x", ",", "1", "+", "2", "y">>,
      <<"RETURN", "x", "+", "1">>, <<"CASE", "x">>, <<"CALL", "x">>,
      <<"x", "<-", "1", "y", "<-", "x", "x", "<-", "y">>,
      <<"a", "[", "1", "]", "<-", "b", "+", "a">>,
      <<"(", "x", ")", "<-", "1">>, <<"1", "<-", "1">>,
      <<"x", "<-", "y", "z", "<-", "x", "+", "y">> }

Bounded(words) == UNION {[1..k -> words] : k \in 0..MaxTokens}

Entries == {"parse_expression", "parse_statement", "parse_block"}

Inputs(e) ==
    CASE e = "parse_expression" -> Bounded(ExprWords) \cup ExprExamples
      [] e = "parse_statement"  -> Bounded(StmtWords) \cup StmtExamples
      [] e = "parse_block"      -> Bounded(BlockWords) \cup StmtExamples

\* the for loop of scan over the stream: n is what TokenStream::next
\* returned, acc the (tokens, errors) so far
RECURSIVE scan_loop(_, _)
scan_loop(n, acc) ==
    IF n.r.kind = "Ok"
    THEN scan_loop(TokenStream_next(n.r.s),
                   [acc EXCEPT !.tokens = Append(@, n.r.token)])
    ELSE IF n.r.kind = "Err"
    THEN scan_loop(TokenStream_next(n.r.s),
                   [acc EXCEPT !.errors = Append(@, n.r.error)])
    ELSE [acc EXCEPT !.s = n.r.s,
                     !.status = IF n.r.kind = "Panic" THEN "panicked"
                                                      ELSE "returned"]

\* scan(source): the tokens and errors returned, with the scanner as the
\* call leaves it
scan == scan_loop(TokenStream_next(from_source),
                  [tokens |-> <<>>, errors |-> <<>>, s |-> from_source,
                   status |-> "running"])

\* a source and the call to make on its tokens are chosen; nothing ran yet
ParserStart(e, text) ==
    /\ source = text
    /\ driver = "parse"
    /\ overflow_checks = FALSE
    /\ pos = from_source.pos
    /\ cur_lexeme = from_source.cur_lexeme
    /\ cur_location = from_source.cur_location
    /\ status = "running"
    /\ trace = <<>>
    /\ yielded = <<>>
    /\ tokens = <<>>
    /\ errors = <<>>
    /\ items = <<>>
    /\ current = 0
    /\ identifier_map = {}
    /\ entry = e
    /\ outcome = "ready"
    /\ parsed = [kind |-> "None"]
    /\ log = <<>>

ParserInit == \E e \in Entries : \E ws \in Inputs(e) : ParserStart(e, Text(ws))

\* the state after a scan call that ended with r
Scanned(r) ==
    /\ SetScanner(r.s)
    /\ status' = r.status
    /\ tokens' = r.tokens
    /\ errors' = r.errors

\* pub fn scan on the source
Scan ==
    /\ driver = "parse"
    /\ status = "running"
    /\ Scanned(scan)
    /\ UNCHANGED <<source, driver, overflow_checks, trace, yielded>>
    /\ UNCHANGED parser_vars

\* let mut buf = TokenBuffer::from_iter(tokens); let mut parser = Parser::new()
Session(iter) ==
    [items |-> TokenBuffer_from_iter(iter).items,
     current |-> TokenBuffer_from_iter(iter).current,
     identifier_map |-> Parser_new.identifier_map,
     log |-> <<>>]

\* what the caller gets
Result(r) ==
    CASE r.kind = "Ok"    -> [kind |-> "Ok", node |-> r.node]
      [] r.kind = "Err"   -> [kind |-> "Err", error |-> r.error]
      [] r.kind = "Panic" -> [kind |-> "Panic", why |-> r.why]
      [] r.kind = "Diverge" -> [kind |-> "Diverge"]

\* the state after a parse call that ended with r
Finished(r) ==
    /\ items' = r.p.items
    /\ current' = r.p.current
    /\ identifier_map' = r.p.identifier_map
    /\ log' = r.p.log
    /\ outcome' = CASE r.kind = "Panic" -> "panicked"
                     [] r.kind = "Diverge" -> "diverged"
                     [] OTHER -> "returned"
    /\ parsed' = Result(r)
    /\ UNCHANGED entry
    /\ UNCHANGED scanner_vars

\* pub fn parse_expression on the tokens scan returned
ParseExpression ==
    /\ entry = "parse_expression"
    /\ status = "returned"
    /\ outcome = "ready"
    /\ Finished(parse_expression(Session(tokens)))

\* pub fn parse_statement on the tokens scan returned
ParseStatement ==
    /\ entry = "parse_statement"
    /\ status = "returned"
    /\ outcome = "ready"
    /\ Finished(parse_stmt(Session(tokens)))

\* pub fn parse_block on the tokens scan returned
ParseBlock ==
    /\ entry = "parse_block"
    /\ status = "returned"
    /\ outcome = "ready"
    /\ Finished(parse_block(Session(tokens)))

ParserNext == Scan \/ ParseExpression \/ ParseStatement \/ ParseBlock

ParserSpec == ParserInit /\ [][ParserNext]_vars


---------------------------------------------------------------------------
(* Vocabulary of the parser properties.                                    *)

Returned_(e) == entry = e /\ outcome = "returned"

ParsedOk(e) == Returned_(e) /\ parsed.kind = "Ok"

Parses(e, ws) == entry = e /\ source = Text(ws) /\ outcome # "ready"

IntLit(n) == Literal([tag |-> "Integer", int |-> I64(FALSE, <<n>>)])

\* the types of the tokens in the buffer
ItemTypes == [i \in 1..Len(items) |-> items[i].type_]

\* the precedence level of a node: the grammar rule that produces it
Level(e) ==
    CASE e.tag = "Binary" /\ e.operator = "LogicOr"  -> 1
      [] e.tag = "Binary" /\ e.operator = "LogicAnd" -> 2
      [] e.tag = "Unary"                             -> 3
      [] e.tag = "Binary" /\ e.operator \in
             {"Equal", "NotEqual", "Less", "LessEqual", "Greater",
              "GreaterEqual"}                        -> 4
      [] e.tag = "Binary" /\ e.operator \in {"Plus", "Minus"} -> 5
      [] e.tag = "Binary" /\ e.operator \in {"Star", "Slash"} -> 6
      [] OTHER                                       -> 7

RECURSIVE Subtrees(_)
RECURSIVE SubtreesOfAll(_)
\* the nodes of an expression tree
Subtrees(e) ==
    {e} \cup
    CASE e.tag = "Binary" -> Subtrees(e.left) \cup Subtrees(e.right)
      [] e.tag = "Unary" -> Subtrees(e.right)
      [] e.tag = "FunctionCall" -> Subtrees(e.function) \cup SubtreesOfAll(e.args)
      [] e.tag = "ArrayIndex" -> Subtrees(e.array) \cup SubtreesOfAll(e.indexes)
      [] OTHER -> {}

SubtreesOfAll(es) ==
    IF es = <<>> THEN {} ELSE Subtrees(Head(es)) \cup SubtreesOfAll(Tail(es))

\* the spelling the interner holds for a handle
NameOf(handle) == (CHOOSE e \in identifier_map : e[2] = handle)[1]

\* the token type an operator is written with
OperatorToken(operator) ==
    CASE operator = "LogicOr" -> "Or"
      [] operator = "LogicAnd" -> "And"
      [] operator = "LogicNot" -> "Not"
      [] OTHER -> operator

\* the token type a literal is written with
LiteralToken(lit) ==
    CASE lit.tag = "Char" -> [tag |-> "CharLiteral", ch |-> lit.ch]
      [] lit.tag = "String" -> [tag |-> "StringLiteral", str |-> lit.str]
      [] lit.tag = "Integer" -> [tag |-> "IntegerLiteral", int |-> lit.int]
      [] lit.tag = "Real" -> [tag |-> "RealLiteral", real |-> lit.real]
      [] lit.tag = "Boolean" -> [tag |-> "BooleanLiteral", bool |-> lit.bool]

RECURSIVE Written(_)
\* the token types of an expression without parentheses, calls or indexes,
\* read from its tree left to right
Written(e) ==
    CASE e.tag = "Binary" ->
             Written(e.left) \o <<[tag |-> OperatorToken(e.operator)]>>
                             \o Written(e.right)
      [] e.tag = "Unary" ->
             <<[tag |-> OperatorToken(e.operator)]>> \o Written(e.right)
      [] e.tag = "Identifier" ->
             <<[tag |-> "Identifier", name |-> NameOf(e.handle)]>>
      [] e.tag = "Literal" -> <<LiteralToken(e.lit)>>

\* no token of the buffer opens a group, a call or an index
Plain == \A i \in 1..Len(items) : items[i].type_.tag \notin {"LParen", "LBracket"}

\* a binary node holds a left operand of its own level or tighter and a
\* right operand of a tighter level; NOT holds a NOT or something tighter
NestedByLevel(e) ==
    /\ e.tag = "Binary" => Level(e.left) >= Level(e) /\ Level(e.right) > Level(e)
    /\ e.tag = "Unary" => Level(e.right) >= Level(e)

---------------------------------------------------------------------------
(* C11: binary operators parse by precedence and nest to the left: the     *)
(* tokens of "1 + 2 * 3" give Binary(Plus, 1, Binary(Star, 2, 3)), those   *)
(* of "a - b - c" give Binary(Minus, Binary(Minus, a, b), c), and every    *)
(* tree returned for tokens without parentheses and brackets is the one    *)
(* the levels OR < AND < comparison < + - < * / fix for the tokens it was  *)
(* read from: each binary node has a left operand of its own level or      *)
(* tighter and a right operand of a tighter level.                         *)
C11_PrecedenceAndLeftAssociativity ==
    /\ Parses("parse_expression", <<"1", "+", "2", "*", "3">>) =>
           parsed = [kind |-> "Ok",
                     node |-> Binary(IntLit(1), "Plus",
                                     Binary(IntLit(2), "Star", IntLit(3)))]
    /\ Parses("parse_expression", <<"a", "-", "b", "-", "c">>) =>
           parsed = [kind |-> "Ok",
                     node |-> Binary(Binary(Identifier(0), "Minus", Identifier(1)),
                                     "Minus", Identifier(2))]
    /\ ParsedOk("parse_expression") /\ Plain =>
           /\ \A e \in Subtrees(parsed.node) : NestedByLevel(e)
           /\ Written(parsed.node) =
                  SubSeq(ItemTypes, 1, Len(Written(parsed.node)))

\* a chain of three operands at one level below a looser operator was parsed
C11_Witness ==
    /\ ParsedOk("parse_expression")
    /\ Plain
    /\ parsed.node.tag = "Binary"
    /\ parsed.node.left.tag = "Binary"
    /\ parsed.node.left.operator = parsed.node.operator
    /\ parsed.node.right.tag = "Binary"
    /\ Level(parsed.node.right) > Level(parsed.node)


---------------------------------------------------------------------------
(* C12 as stated: NOT binds tighter than the comparison operators, so the  *)
(* tokens of "NOT a = b" parse as Binary(Equal, Unary(LogicNot, a), b).    *)
C12_NotTighterThanComparison ==
    Parses("parse_expression", <<"NOT", "a", "=", "b">>) =>
        parsed = [kind |-> "Ok",
                  node |-> Binary(Unary("LogicNot", Identifier(0)), "Equal",
                                  Identifier(1))]

(* C12, amended: NOT binds looser than the comparison operators: the       *)
(* tokens of "NOT a = b" parse as Unary(LogicNot, Binary(Equal, a, b)),    *)
(* and in every tree returned for tokens without parentheses and brackets  *)
(* no operand of a comparison, of + - or of * / is a NOT.                  *)
C12_NotLooserThanComparison ==
    /\ Parses("parse_expression", <<"NOT", "a", "=", "b">>) =>
           parsed = [kind |-> "Ok",
                     node |-> Unary("LogicNot",
                                    Binary(Identifier(0), "Equal", Identifier(1)))]
    /\ ParsedOk("parse_expression") /\ Plain =>
           \A e \in Subtrees(parsed.node) :
               e.tag = "Binary" /\ Level(e) >= 4 =>
                   e.left.tag # "Unary" /\ e.right.tag # "Unary"

\* a NOT in front of a comparison was parsed: the comparison is its operand
C12_Witness ==
    /\ ParsedOk("parse_expression")
    /\ Plain
    /\ items[1].type_.tag = "Not"
    /\ Len(items) >= 4
    /\ items[3].type_.tag = "Equal"
    /\ parsed.node.tag = "Unary"
    /\ parsed.node.right.tag = "Binary"
    /\ parsed.node.right.operator = "Equal"


---------------------------------------------------------------------------
(* C13: NOT binds tighter than AND and OR: the tokens of "NOT a AND b"     *)
(* parse as Binary(LogicAnd, Unary(LogicNot, a), b), those of "NOT NOT a"  *)
(* as Unary(LogicNot, Unary(LogicNot, a)), and in every tree returned for  *)
(* tokens without parentheses and brackets the operand of a NOT is never   *)
(* an AND or an OR.                                                        *)
C13_NotTighterThanAndOr ==
    /\ Parses("parse_expression", <<"NOT", "a", "AND", "b">>) =>
           parsed = [kind |-> "Ok",
                     node |-> Binary(Unary("LogicNot", Identifier(0)), "LogicAnd",
                                     Identifier(1))]
    /\ Parses("parse_expression", <<"NOT", "NOT", "a">>) =>
           parsed = [kind |-> "Ok",
                     node |-> Unary("LogicNot", Unary("LogicNot", Identifier(0)))]
    /\ ParsedOk("parse_expression") /\ Plain =>
           \A e \in Subtrees(parsed.node) :
               e.tag = "Unary" => Level(e.right) >= Level(e)

\* a NOT in front of the left operand of an AND or OR was parsed: the NOT
\* is the left operand
C13_Witness ==
    /\ ParsedOk("parse_expression")
    /\ Plain
    /\ items[1].type_.tag = "Not"
    /\ parsed.node.tag = "Binary"
    /\ parsed.node.operator \in {"LogicAnd", "LogicOr"}
    /\ parsed.node.left.tag = "Unary"
    /\ parsed.node.left.right.tag = "Identifier"


---------------------------------------------------------------------------
(* Vocabulary: what the log of a call holds.                               *)

Events(op) == {i \in 1..Len(log) : log[i].op = op}

---------------------------------------------------------------------------
(* C14 as stated: whenever parse_block stops because a statement attempt   *)
(* failed, the cursor is back where it was before that attempt, however    *)
(* many tokens the attempt consumed before failing.                        *)
C14_BlockStopRestoresCursor ==
    \A i \in Events("block_stop") : log[i].after = log[i].before


---------------------------------------------------------------------------
(* C15: the ELSE and STEP clauses are probed without side effect.  A probe *)
(* matches exactly when the token at the cursor is the keyword; when it    *)
(* does not match the cursor is unchanged and the clause is absent, when   *)
(* it matches the cursor moves past the keyword and the clause is parsed.  *)
(* The tokens of "IF x THEN y <- 1 ENDIF" parse to an If with one          *)
(* assignment in the then-branch and no else-branch, the cursor at the     *)
(* buffer length.                                                          *)
C15_OptionalClauseProbes ==
    /\ \A i \in Events("probe") :
           /\ log[i].taken <=>
                  /\ log[i].before < Len(items)
                  /\ items[log[i].before + 1].type_.tag = log[i].type_
           /\ log[i].after = IF log[i].taken THEN log[i].before + 1
                                             ELSE log[i].before
    /\ ParsedOk("parse_statement") /\ Cardinality(Events("probe")) = 1 =>
           \A i \in Events("probe") :
               /\ parsed.node.tag = "If" => parsed.node.else_branch.some = log[i].taken
               /\ parsed.node.tag = "ForLoop" => parsed.node.step.some = log[i].taken
    /\ Parses("parse_statement", <<"IF", "x", "THEN", "y", "<-", "1", "ENDIF">>) =>
           /\ parsed = [kind |-> "Ok",
                        node |-> [tag |-> "If", condition |-> Identifier(0),
                                  then_branch |->
                                      Block(<<[tag |-> "Assignment",
                                               target |-> Identifier(1),
                                               value |-> IntLit(1)]>>),
                                  else_branch |-> None]]
           /\ current = Len(items)
           /\ current = 7

\* an If was parsed whose probe for ELSE found another token and left the
\* cursor where it was
C15_Witness ==
    /\ ParsedOk("parse_statement")
    /\ parsed.node.tag = "If"
    /\ ~ parsed.node.else_branch.some
    /\ Len(parsed.node.then_branch.contents) = 1
    /\ \E i \in Events("probe") :
           log[i].type_ = "Else" /\ ~ log[i].taken /\ log[i].after = log[i].before


---------------------------------------------------------------------------
(* Vocabulary: the expressions a returned tree holds.                      *)

\* the elements of a sequence
Range(seq) == {seq[i] : i \in 1..Len(seq)}

\* the value of an Option, as a set
Opt(o) == IF o.some THEN {o.value} ELSE {}

RECURSIVE StmtExprs(_)
RECURSIVE BlockExprs(_)
\* the expressions a statement holds directly or in its blocks
StmtExprs(s) ==
    CASE s.tag = "ProcedureDecl" ->
             {s.name} \cup {q.name : q \in UNION {Range(ps) : ps \in Opt(s.params)}}
                      \cup BlockExprs(s.body.contents)
      [] s.tag = "FunctionDecl" ->
             {s.name} \cup {q.name : q \in UNION {Range(ps) : ps \in Opt(s.params)}}
                      \cup BlockExprs(s.body.contents)
      [] s.tag = "If" ->
             {s.condition} \cup BlockExprs(s.then_branch.contents)
                 \cup UNION {BlockExprs(b.contents) : b \in Opt(s.else_branch)}
      [] s.tag = "Return" -> {s.expr}
      [] s.tag = "ForLoop" ->
             {s.target, s.start, s.end} \cup Opt(s.step)
                 \cup BlockExprs(s.body.contents)
      [] s.tag = "RepeatUntil" -> {s.condition} \cup BlockExprs(s.body.contents)
      [] s.tag = "While" -> {s.condition} \cup BlockExprs(s.body.contents)
      [] s.tag = "VariableDecl" -> {s.name}
      [] s.tag = "ConstantDecl" -> {s.name}
      [] s.tag = "Input" -> Range(s.exprs)
      [] s.tag = "Output" -> Range(s.exprs)
      [] s.tag = "Assignment" -> {s.target, s.value}

BlockExprs(contents) ==
    IF contents = <<>> THEN {}
    ELSE StmtExprs(Head(contents)) \cup BlockExprs(Tail(contents))

\* the expressions of the tree a call returned
ParsedExprs ==
    CASE parsed.kind # "Ok" -> {}
      [] entry = "parse_expression" -> {parsed.node}
      [] entry = "parse_statement" -> StmtExprs(parsed.node)
      [] entry = "parse_block" -> BlockExprs(parsed.node.contents)

\* the handles the identifiers of a returned tree hold
ParsedHandles ==
    {e.handle : e \in {n \in UNION {Subtrees(x) : x \in ParsedExprs} :
                           n.tag = "Identifier"}}

\* the spellings get_ident_handle was called with before the i-th event
SpellingsBefore(i) == {log[j].ident : j \in {k \in Events("get_ident_handle") : k < i}}

---------------------------------------------------------------------------
(* C16: within one parse session the k-th distinct identifier spelling     *)
(* gets the handle k-1: a spelling seen before gets the handle it got      *)
(* then, a new one gets the number of spellings seen before it; so two     *)
(* spellings never share a handle, the handles in use are exactly 0..n-1   *)
(* for the n spellings of the interner, and every handle of a returned     *)
(* tree is one of them.                                                    *)
C16_InternerHandles ==
    /\ \A i \in Events("get_ident_handle") :
           /\ log[i].ident \notin SpellingsBefore(i) =>
                  log[i].handle = Cardinality(SpellingsBefore(i))
           /\ \A j \in Events("get_ident_handle") :
                  (log[i].ident = log[j].ident) <=> (log[i].handle = log[j].handle)
    /\ {e[1] : e \in identifier_map} = SpellingsBefore(Len(log) + 1)
    /\ \A e1, e2 \in identifier_map : (e1[1] = e2[1]) <=> (e1[2] = e2[2])
    /\ {e[2] : e \in identifier_map} = 0..(Cardinality(identifier_map) - 1)
    /\ ParsedHandles \subseteq {e[2] : e \in identifier_map}

\* a tree was returned in which a spelling comes back after another one was
\* met in between, and three spellings hold the handles 0, 1 and 2
C16_Witness ==
    /\ outcome = "returned"
    /\ parsed.kind = "Ok"
    /\ ParsedHandles = {0, 1, 2}
    /\ \E i, j, k \in Events("get_ident_handle") :
           /\ i < j /\ j < k
           /\ log[i].ident = log[k].ident
           /\ log[i].ident # log[j].ident
           /\ log[i].handle = log[k].handle


---------------------------------------------------------------------------
(* Vocabulary: the shape of the tokens in the buffer.                      *)

LiteralTokens == {"CharLiteral", "StringLiteral", "IntegerLiteral",
                  "RealLiteral", "BooleanLiteral"}

\* the buffer starts with tokens of the types tags, in order
StartsWith(tags) ==
    /\ Len(items) >= Len(tags)
    /\ \A i \in 1..Len(tags) : items[i].type_.tag = tags[i]

\* a parse call on the buffer has ended, by a return or by a panic
Called(e) == entry = e /\ outcome # "ready"

IsUnexpectedToken == parsed.kind = "Err" /\ parsed.error.tag = "UnexpectedToken"

IsUnexpectedEOF == parsed.kind = "Err" /\ parsed.error.tag = "UnexpectedEOF"

---------------------------------------------------------------------------
(* C17 as stated: a CONSTANT declaration is accepted only when the token   *)
(* after '<-' is a bare literal token; with any other token there (an      *)
(* identifier, the start of a call, a parenthesis) the statement fails     *)
(* with UnexpectedToken.                                                   *)
C17_ConstantTakesBareLiteral ==
    /\ Called("parse_statement")
    /\ StartsWith(<<"Constant", "Identifier", "LArrow">>)
    /\ Len(items) >= 4
    => IF items[4].type_.tag \in LiteralTokens
       THEN parsed.kind = "Ok" /\ parsed.node.tag = "ConstantDecl"
       ELSE IsUnexpectedToken


---------------------------------------------------------------------------
(* C18 as stated: on every token sequence that holds none of the keywords  *)
(* CASE, CALL, OPENFILE, READFILE, WRITEFILE, CLOSEFILE and ARRAY,         *)
(* parse_expression and parse_statement return a tree node or one of the   *)
(* errors UnexpectedToken and UnexpectedEOF, and never abort, also when    *)
(* the failure is detected with the cursor at the end of the buffer.       *)
C18_ParseNeverAborts ==
    /\ Called("parse_expression") \/ Called("parse_statement")
    /\ \A i \in 1..Len(items) :
           items[i].type_.tag \notin Unimplemented \cup {"Array"}
    => /\ outcome = "returned"
       /\ \/ parsed.kind = "Ok"
          \/ IsUnexpectedToken
          \/ IsUnexpectedEOF

---------------------------------------------------------------------------
(* C19 as stated: a failed parse reports the token that caused it.  When   *)
(* the token after DECLARE, CONSTANT, PROCEDURE or FUNCTION is a token     *)
(* that cannot start a name, the error is UnexpectedToken with that very   *)
(* token; when the tokens end after an opening parenthesis and one operand *)
(* (a group "( a" or a call "f ( a"), where the closing parenthesis was    *)
(* required, the error is UnexpectedEOF.                                   *)
C19_ErrorCarriesOffendingToken ==
    /\ /\ Called("parse_statement")
       /\ Len(items) >= 2
       /\ items[1].type_.tag \in {"Declare", "Constant", "Procedure", "Function"}
       /\ items[2].type_.tag \notin {"Identifier", "LParen"}
       => IsUnexpectedToken /\ parsed.error.token = items[2]
    /\ /\ Called("parse_expression")
       /\ \/ /\ Len(items) = 2
             /\ StartsWith(<<"LParen", "Identifier">>)
          \/ /\ Len(items) = 3
             /\ StartsWith(<<"Identifier", "LParen", "Identifier">>)
       => IsUnexpectedEOF


---------------------------------------------------------------------------
(* Vocabulary: declarations of procedures and functions.                   *)

\* the buffer holds PROCEDURE or FUNCTION and a name
DeclaresRoutine ==
    /\ Len(items) >= 2
    /\ items[1].type_.tag \in {"Procedure", "Function"}
    /\ items[2].type_.tag = "Identifier"

\* a token follows the name and it is '('
ParenAfterName == Len(items) >= 3 /\ items[3].type_.tag = "LParen"

---------------------------------------------------------------------------
(* C20 as stated: a PROCEDURE or FUNCTION declaration requires the         *)
(* parenthesis pair after its name and the parameters inside are optional: *)
(* "PROCEDURE p ( ) ENDPROCEDURE" is accepted with zero parameters, and a  *)
(* declaration with no '(' after the name is a syntax error.               *)
C20_ParenthesesRequired ==
    /\ Parses("parse_statement", <<"PROCEDURE", "p", "(", ")", "ENDPROCEDURE">>) =>
           parsed = [kind |-> "Ok",
                     node |-> [tag |-> "ProcedureDecl", name |-> Identifier(0),
                               params |-> Some(<<>>), body |-> Block(<<>>)]]
    /\ Called("parse_statement") /\ DeclaresRoutine /\ ~ ParenAfterName =>
           parsed.kind = "Err"

(* C20, amended: the parenthesized parameter list of a PROCEDURE or        *)
(* FUNCTION declaration is optional as a whole.  A declaration with no '(' *)
(* after its name has no parameter list, "PROCEDURE p ENDPROCEDURE" is     *)
(* accepted; a list that is there holds at least one parameter, and an     *)
(* empty pair "name ( )" is rejected with UnexpectedToken on the ')'.      *)
C20_ParameterListOptional ==
    /\ Parses("parse_statement", <<"PROCEDURE", "p", "ENDPROCEDURE">>) =>
           parsed = [kind |-> "Ok",
                     node |-> [tag |-> "ProcedureDecl", name |-> Identifier(0),
                               params |-> None, body |-> Block(<<>>)]]
    /\ Parses("parse_statement", <<"PROCEDURE", "p", "(", ")", "ENDPROCEDURE">>) =>
           IsUnexpectedToken /\ parsed.error.token = items[4]
    /\ /\ Called("parse_statement")
       /\ DeclaresRoutine
       /\ StartsWith(<<items[1].type_.tag, "Identifier", "LParen", "RParen">>)
       => IsUnexpectedToken /\ parsed.error.token = items[4]
    /\ ParsedOk("parse_statement") /\ DeclaresRoutine =>
           /\ parsed.node.tag \in {"ProcedureDecl", "FunctionDecl"}
           /\ parsed.node.params.some <=> ParenAfterName
           /\ parsed.node.params.some => Len(parsed.node.params.value) >= 1

\* a declaration with no parenthesis after its name was accepted
C20_Witness ==
    /\ ParsedOk("parse_statement")
    /\ DeclaresRoutine
    /\ ~ ParenAfterName
    /\ parsed.node.tag = "ProcedureDecl"
    /\ ~ parsed.node.params.some


---------------------------------------------------------------------------
(* Vocabulary: the lists of call and index suffixes.                       *)

\* the tags of the tokens in the buffer, in order
ItemTags == [i \in 1..Len(items) |-> items[i].type_.tag]

\* the opening delimiters of the two suffixes and what closes each
Closing(open) == IF open = "LParen" THEN "RParen" ELSE "RBracket"

SuffixOf(open) == IF open = "LParen" THEN "FunctionCall" ELSE "ArrayIndex"

\* the elements of a parsed suffix node
Elements(node) == IF node.tag = "FunctionCall" THEN node.args ELSE node.indexes

---------------------------------------------------------------------------
(* C21 as stated: the list of a call or index suffix is comma-separated    *)
(* and closed by its own delimiter.  An immediately closed list has zero   *)
(* elements; n elements separated by n-1 commas give n elements in order;  *)
(* a comma directly before the closing delimiter is a syntax error; a      *)
(* token after an element that is neither a comma nor the closing          *)
(* delimiter gives UnexpectedToken on that token; and the end of the       *)
(* input before the closing delimiter gives UnexpectedEOF.                 *)
C21_SuffixListClosedByOwnDelimiter ==
    \A open \in {"LParen", "LBracket"} :
        Called("parse_expression") =>
            /\ ItemTags = <<"Identifier", open, Closing(open)>> =>
                   /\ parsed.kind = "Ok"
                   /\ parsed.node.tag = SuffixOf(open)
                   /\ Elements(parsed.node) = <<>>
            /\ ItemTags = <<"Identifier", open, "Identifier", Closing(open)>> =>
                   /\ parsed.kind = "Ok"
                   /\ parsed.node.tag = SuffixOf(open)
                   /\ Len(Elements(parsed.node)) = 1
            /\ ItemTags = <<"Identifier", open, "Identifier", "Comma",
                            "Identifier", Closing(open)>> =>
                   /\ parsed.kind = "Ok"
                   /\ parsed.node.tag = SuffixOf(open)
                   /\ Len(Elements(parsed.node)) = 2
                   /\ \A i \in 1..2 :
                          /\ Elements(parsed.node)[i].tag = "Identifier"
                          /\ NameOf(Elements(parsed.node)[i].handle)
                                 = items[2 * i + 1].type_.name
            /\ StartsWith(<<"Identifier", open, "Identifier", "Comma",
                            Closing(open)>>) =>
                   parsed.kind = "Err"
            /\ /\ StartsWith(<<"Identifier", open, "Identifier">>)
               /\ Len(items) >= 4
               /\ items[4].type_.tag \in {"Identifier", "IntegerLiteral",
                                         "RParen",
                                         "RBracket"} \ {Closing(open)}
               => IsUnexpectedToken /\ parsed.error.token = items[4]
            /\ \/ ItemTags = <<"Identifier", open>>
               \/ ItemTags = <<"Identifier", open, "Identifier">>
               \/ ItemTags = <<"Identifier", open, "Identifier", "Comma">>
               \/ ItemTags = <<"Identifier", open, "Identifier", "LParen",
                               "RParen">>
               => IsUnexpectedEOF


---------------------------------------------------------------------------
(* C22 as stated: the probe of parse_call for a further suffix restores    *)
(* the cursor on mismatch.  Every backtrack directly follows a next that   *)
(* advanced the cursor by one, and puts the cursor back where that next    *)
(* started, also when no token follows; so after a successful              *)
(* parse_expression the cursor is one past the last token of the           *)
(* expression.                                                             *)
C22_ProbeRestoresCursor ==
    /\ \A i \in Events("backtrack") :
           /\ i > 1
           /\ log[i - 1].op = "next"
           /\ log[i - 1].after = log[i - 1].before + 1
           /\ log[i].before = log[i - 1].after
           /\ log[i].after = log[i - 1].before
    /\ ParsedOk("parse_expression") /\ Plain =>
           current = Len(Written(parsed.node))


---------------------------------------------------------------------------
(* Vocabulary: the steps of the token buffer a parse call made.            *)

CursorSteps == Events("next") \cup Events("consume") \cup Events("backtrack")

Cursors == 0..Len(items)

(* C23: during any parse call the cursor of the token buffer stays within  *)
(* 0 .. number of tokens: every next, consume and backtrack step starts    *)
(* and ends at such a cursor, a next or a consume moves it forward by at   *)
(* most one and a backtrack moves it back by at most one, and the call     *)
(* ends at such a cursor.  The token sequence is never changed: the buffer *)
(* after the call holds the tokens it was built from.                      *)
C23_CursorWithinBuffer ==
    outcome # "ready" =>
        /\ items = tokens
        /\ current \in Cursors
        /\ \A i \in CursorSteps :
               /\ log[i].before \in Cursors
               /\ log[i].after \in Cursors
               /\ log[i].op \in {"next", "consume"} =>
                      log[i].after \in {log[i].before, log[i].before + 1}
               /\ log[i].op = "backtrack" =>
                      log[i].after \in {log[i].before, log[i].before - 1}
        /\ Len(log) \in CursorSteps => current = log[Len(log)].after

\* a call that asked for a token at the end of the buffer, where next left
\* the cursor alone, and that stepped back to the start of the buffer
C23_Witness ==
    /\ outcome # "ready"
    /\ Len(items) > 0
    /\ \E i \in Events("next") :
           log[i].before = Len(items) /\ log[i].after = Len(items)
    /\ \E i \in Events("backtrack") : log[i].after = 0
    /\ \E i \in Events("consume") : log[i].after = log[i].before + 1


---------------------------------------------------------------------------
(* Vocabulary: the targets of assignments.                                 *)

KeywordBranches == {"Procedure", "Function", "If", "Return", "Case", "For",
                    "Repeat", "While", "Declare", "Constant", "Input",
                    "Output", "Call", "OpenFile", "ReadFile", "WriteFile",
                    "CloseFile"}

RECURSIVE IsAssignable(_)
\* an identifier followed by zero or more call or index suffixes
IsAssignable(e) ==
    CASE e.tag = "Identifier" -> TRUE
      [] e.tag = "FunctionCall" -> IsAssignable(e.function)
      [] e.tag = "ArrayIndex" -> IsAssignable(e.array)
      [] OTHER -> FALSE

---------------------------------------------------------------------------
(* C24 as stated: a statement whose first token selects no keyword branch  *)
(* is parsed as an assignment whose target is an identifier followed by    *)
(* zero or more call or index suffixes; a statement that starts with a     *)
(* literal, or with a parenthesized expression, followed by '<-' is        *)
(* rejected with a syntax error.                                           *)
C24_AssignmentTargetIsAssignable ==
    /\ Called("parse_statement") /\ Len(items) > 0
       /\ items[1].type_.tag \notin KeywordBranches
       /\ parsed.kind = "Ok"
       => /\ parsed.node.tag = "Assignment"
          /\ IsAssignable(parsed.node.target)
    /\ Called("parse_statement") /\ Len(items) >= 2
       /\ items[1].type_.tag \in LiteralTokens
       /\ items[2].type_.tag = "LArrow"
       => parsed.kind = "Err"
    /\ Called("parse_statement")
       /\ StartsWith(<<"LParen", "Identifier", "RParen", "LArrow">>)
       => parsed.kind = "Err"


---------------------------------------------------------------------------
(* C25: parse_block terminates.  No loop of parse_block, at the top or in  *)
(* the body of a statement, repeats an attempt for ever: every statement   *)
(* attempt that succeeds leaves the cursor strictly further than where it  *)
(* started and within the buffer, so a block holds at most as many         *)
(* statements as the buffer holds tokens, also when its last statement     *)
(* reaches the end of the buffer.                                          *)
C25_BlockLoopAdvances ==
    outcome # "ready" =>
        /\ outcome # "diverged"
        /\ \A i \in Events("block_push") :
               /\ log[i].before < log[i].after
               /\ log[i].after <= Len(items)
        /\ Cardinality(Events("block_push")) <= Len(items)
        /\ ParsedOk("parse_block") =>
               Len(parsed.node.contents) <= Len(items)

\* a block of two statements whose last statement asked for a token at the
\* end of the buffer
C25_Witness ==
    /\ ParsedOk("parse_block")
    /\ Len(parsed.node.contents) >= 2
    /\ \E i \in Events("block_push") :
           /\ log[i].after >= Len(items) - 1
           /\ \E j \in Events("next") :
                  j < i /\ log[j].before = Len(items) /\ log[j].after = Len(items)

====
